---- MODULE Spec2Model ----
(***************************************************************************)
(* Interview flow state machine (interview-engine.js) and scoring engine   *)
(* (scoring.js) of the Interview AI platform.                              *)
(*                                                                         *)
(* The session registry `sessions` is the program state.  Every exported   *)
(* handler of interview-engine.js is an operator that maps the registry,   *)
(* the arguments of the call and the replies of the question/evaluation    *)
(* oracle (ai.js) to the registry after the call, together with the error  *)
(* thrown (if any).  JavaScript's undefined/null is None (the empty        *)
(* tuple); a defined value v is Some(v).  A property read on undefined is  *)
(* the error "TypeError", raised at the statement where the code reads it. *)
(* Persistence (database.js, the transcript file) only mirrors the session *)
(* and is not modelled.                                                    *)
(***************************************************************************)
EXTENDS Integers, Sequences, FiniteSets, TLC

VARIABLES sessions, now, last, scoreCalls, deviations, inflight

vars == <<sessions, now, last, scoreCalls, deviations, inflight>>

-----------------------------------------------------------------------------
(* Bounds of the exploration *)

\* Number of calls in one run that depart from the scripted client loop
\* (the call matching the prompt, nominal arguments, nominal oracle replies).
MaxDeviations == 1

\* The registry is unbounded in the code; the model stops creating
\* sessions at MaxSessions.
MaxSessions == 2

\* The oracle answers a suspended call before the registry has changed this
\* many times since the call was admitted.
MaxWait == 8

\* Session ids the callers may present; an id is unknown to the registry
\* until createSession has issued it.
IdSpace == 1..MaxSessions

-----------------------------------------------------------------------------
(* undefined / null *)

None == << >>

Some(v) == <<v>>

IsSome(o) == o # None

Val(o) == o[1]

-----------------------------------------------------------------------------
(* Configuration: V2_CONFIG *)

totalSlots == 10

maxFollowUps == 2

slotTypes ==
  << "spoken", "spoken", "spoken", "mcq", "spoken",
     "spoken", "mcq", "spoken", "coding", "spoken" >>

STATES ==
  { "CREATED", "WARMUP", "CORE_QUESTION", "FOLLOW_UP", "MCQ",
    "MCQ_JUSTIFY", "CODING", "CODING_INTERRUPT", "COMPLETED" }

-----------------------------------------------------------------------------
(* Strings.  TLA+ strings are atomic, so every text the model handles is   *)
(* listed here with its characters.                                        *)

NormalAnswer == "I use a hash map to store the keys and values."

IdkAnswer == "I don't know."

NoIdeaAnswer == "No idea!"

LongIdkAnswer == "I don't know the exact class, maybe an interface?"

SkippedAnswer == "[SKIPPED]"

NormalJustification == "Because A is the usual choice."

OptionA == "A) static"

OptionB == "B) final"

Chars(str) ==
  CASE str = NormalAnswer ->
         << "I", " ", "u", "s", "e", " ", "a", " ", "h", "a", "s", "h", " ",
            "m", "a", "p", " ", "t", "o", " ", "s", "t", "o", "r", "e", " ",
            "t", "h", "e", " ", "k", "e", "y", "s", " ", "a", "n", "d", " ",
            "v", "a", "l", "u", "e", "s", "." >>
    [] str = IdkAnswer ->
         << "I", " ", "d", "o", "n", "'", "t", " ", "k", "n", "o", "w", "." >>
    [] str = NoIdeaAnswer ->
         << "N", "o", " ", "i", "d", "e", "a", "!" >>
    [] str = LongIdkAnswer ->
         << "I", " ", "d", "o", "n", "'", "t", " ", "k", "n", "o", "w", " ",
            "t", "h", "e", " ", "e", "x", "a", "c", "t", " ", "c", "l", "a",
            "s", "s", ",", " ", "m", "a", "y", "b", "e", " ", "a", "n", " ",
            "i", "n", "t", "e", "r", "f", "a", "c", "e", "?" >>
    [] str = SkippedAnswer ->
         << "[", "S", "K", "I", "P", "P", "E", "D", "]" >>
    [] str = NormalJustification ->
         << "B", "e", "c", "a", "u", "s", "e", " ", "A", " ", "i", "s", " ",
            "t", "h", "e", " ", "u", "s", "u", "a", "l", " ", "c", "h", "o",
            "i", "c", "e", "." >>
    [] str = OptionA ->
         << "A", ")", " ", "s", "t", "a", "t", "i", "c" >>
    [] str = OptionB ->
         << "B", ")", " ", "f", "i", "n", "a", "l" >>

\* String.prototype.charAt(0): the first character, "" for the empty string.
charAt0(str) == IF Len(Chars(str)) = 0 THEN "" ELSE Chars(str)[1]

LowerOf ==
  [ c \in { "A", "B", "C", "D", "E", "F", "G", "H", "I", "J", "K", "L", "M",
            "N", "O", "P", "Q", "R", "S", "T", "U", "V", "W", "X", "Y", "Z" } |->
      CASE c = "A" -> "a" [] c = "B" -> "b" [] c = "C" -> "c" [] c = "D" -> "d"
        [] c = "E" -> "e" [] c = "F" -> "f" [] c = "G" -> "g" [] c = "H" -> "h"
        [] c = "I" -> "i" [] c = "J" -> "j" [] c = "K" -> "k" [] c = "L" -> "l"
        [] c = "M" -> "m" [] c = "N" -> "n" [] c = "O" -> "o" [] c = "P" -> "p"
        [] c = "Q" -> "q" [] c = "R" -> "r" [] c = "S" -> "s" [] c = "T" -> "t"
        [] c = "U" -> "u" [] c = "V" -> "v" [] c = "W" -> "w" [] c = "X" -> "x"
        [] c = "Y" -> "y" [] c = "Z" -> "z" ]

LowerLetters ==
  { "a", "b", "c", "d", "e", "f", "g", "h", "i", "j", "k", "l", "m",
    "n", "o", "p", "q", "r", "s", "t", "u", "v", "w", "x", "y", "z" }

WhiteSpace == { " ", "\t", "\n" }

\* String.prototype.toLowerCase
toLowerCase(cs) ==
  [ i \in 1..Len(cs) |-> IF cs[i] \in DOMAIN LowerOf THEN LowerOf[cs[i]] ELSE cs[i] ]

\* String.prototype.trim
trim(cs) ==
  LET keep == { i \in 1..Len(cs) : cs[i] \notin WhiteSpace }
      lo == CHOOSE i \in keep : \A j \in keep : i <= j
      hi == CHOOSE i \in keep : \A j \in keep : j <= i
  IN IF keep = {} THEN << >> ELSE SubSeq(cs, lo, hi)

\* replace(/[^a-z\s]/g, ''): drop every character that is neither a
\* lower-case letter nor white space.
IsKept(c) == c \in LowerLetters \/ c \in WhiteSpace

stripNonLetters(cs) == SelectSeq(cs, IsKept)

\* String.prototype.includes
includes(hay, needle) ==
  \E i \in 1..(Len(hay) - Len(needle) + 1) :
     SubSeq(hay, i, i + Len(needle) - 1) = needle

idkPhrases ==
  { << "i", " ", "d", "o", "n", "t", " ", "k", "n", "o", "w" >>,
    << "i", " ", "d", "o", " ", "n", "o", "t", " ", "k", "n", "o", "w" >>,
    << "i", "d", "k" >>,
    << "n", "o", " ", "i", "d", "e", "a" >>,
    << "n", "o", "t", " ", "s", "u", "r", "e" >>,
    << "i", "m", " ", "n", "o", "t", " ", "s", "u", "r", "e" >>,
    << "i", " ", "a", "m", " ", "n", "o", "t", " ", "s", "u", "r", "e" >>,
    << "i", " ", "h", "a", "v", "e", " ", "n", "o", " ", "i", "d", "e", "a" >>,
    << "n", "o", " ", "c", "l", "u", "e" >>,
    << "c", "a", "n", "t", " ", "a", "n", "s", "w", "e", "r" >>,
    << "s", "k", "i", "p" >>,
    << "p", "a", "s", "s" >>,
    << "d", "o", "n", "t", " ", "r", "e", "m", "e", "m", "b", "e", "r" >>,
    << "i", " ", "f", "o", "r", "g", "o", "t" >> }

IdkLengthLimit == 30

normalizeAnswer(answer) == stripNonLetters(trim(toLowerCase(Chars(answer))))

detectDontKnow_keepPunctuation(answer) ==
  LET normalized == trim(toLowerCase(Chars(answer)))
  IN IF Len(normalized) < IdkLengthLimit
       THEN \E phrase \in idkPhrases : includes(normalized, phrase)
       ELSE FALSE

detectDontKnow(answer) ==
  LET normalized == normalizeAnswer(answer)
  IN IF Len(normalized) < IdkLengthLimit
       THEN \E phrase \in idkPhrases : includes(normalized, phrase)
       ELSE FALSE

-----------------------------------------------------------------------------
(* Replies of the question/evaluation oracle (ai.js).  chatCompletion      *)
(* either throws (HTTP error) or returns text; the JSON-returning          *)
(* wrappers parse that text or fall back to a fixed default.               *)

\* The object the model's evaluation JSON parses to.  `quality` is the key
\* scoring.js reads; the prompt of evaluateAnswer never asks for it.
Evaluation(q, concepts) ==
  [ answer_quality |-> q, concept_coverage |-> concepts, confidence |-> 80,
    clarity |-> "high", brief_feedback |-> "Good answer.", quality |-> None ]

EvaluationFallback ==
  [ answer_quality |-> Some(5), concept_coverage |-> << >>, confidence |-> 50,
    clarity |-> "medium", brief_feedback |-> "Could not parse AI evaluation.",
    quality |-> None ]

CodingEvaluation(q) ==
  [ logic_understanding |-> "high", explanation_alignment |-> 90,
    code_quality |-> q, brief_feedback |-> "Good code." ]

CodingEvaluationFallback ==
  [ logic_understanding |-> "medium", explanation_alignment |-> 50,
    code_quality |-> Some(5), brief_feedback |-> "Could not parse AI evaluation." ]

MCQPayload(question, options, correct) ==
  [ question |-> question, options |-> options, correct |-> correct,
    topic |-> Some("mcq topic") ]

MCQFallback ==
  [ question |-> Some("Which keyword is used to prevent method overriding in Java?"),
    options |-> << "A) static", "B) final", "C) abstract", "D) volatile" >>,
    correct |-> Some("B"), topic |-> Some("Java basics") ]

CodingPayload == [ problem |-> Some("problem"), topic |-> Some("coding topic") ]

CodingFallback ==
  [ problem |-> Some("Write a function that checks if a number is prime."),
    topic |-> Some("logic") ]

\* One reply of chatCompletion, with what its text parses to under each of
\* the JSON shapes the wrappers ask for.
NominalReply ==
  [ throws |-> FALSE, parsable |-> TRUE,
    eval |-> Evaluation(Some(7), << "topic" >>),
    codingEval |-> CodingEvaluation(Some(8)),
    mcq |-> MCQPayload(Some("question"), << OptionA, OptionB >>, Some("A")),
    coding |-> CodingPayload ]

ThrowingReply == [ NominalReply EXCEPT !.throws = TRUE ]

UnparsableReply == [ NominalReply EXCEPT !.parsable = FALSE ]

\* Replies to an evaluation request: well-formed, failing, malformed, a
\* low quality, and an object without answer_quality.
EvalReplies ==
  { NominalReply, ThrowingReply, UnparsableReply,
    [ NominalReply EXCEPT !.eval = Evaluation(Some(2), << >>) ],
    [ NominalReply EXCEPT !.eval = Evaluation(None, << >>) ] }

\* Replies to a generation request (question, follow-up, MCQ, coding).
GenReplies == { NominalReply, ThrowingReply, UnparsableReply }

evaluateAnswer_lowDefault(reply) ==
  IF reply.parsable THEN reply.eval
  ELSE [ EvaluationFallback EXCEPT !.answer_quality = Some(2) ]

\* ai.evaluateAnswer: the parsed object, else the neutral default.
evaluateAnswer(reply) == IF reply.parsable THEN reply.eval ELSE EvaluationFallback

\* ai.evaluateCodingAnswer
evaluateCodingAnswer(reply) ==
  IF reply.parsable THEN reply.codingEval ELSE CodingEvaluationFallback

\* ai.generateMCQ: the parsed object when it has a question and at least
\* two options, else the built-in question.
generateMCQ(reply) ==
  IF reply.parsable /\ IsSome(reply.mcq.question) /\ Len(reply.mcq.options) >= 2
    THEN reply.mcq
    ELSE MCQFallback

\* ai.generateCodingQuestion
generateCodingQuestion(reply) == IF reply.parsable THEN reply.coding ELSE CodingFallback

-----------------------------------------------------------------------------
(* Arguments of the calls *)

Answers == { NormalAnswer, IdkAnswer, NoIdeaAnswer, LongIdkAnswer }

SelectedOptions == { OptionA, OptionB }

NominalBehavior ==
  [ pasteEvents |-> Some(0), timeToFirstKeystroke |-> Some(2000),
    totalTimeMs |-> Some(45000) ]

BehaviorDatas ==
  { NominalBehavior,
    [ pasteEvents |-> Some(1), timeToFirstKeystroke |-> Some(500),
      totalTimeMs |-> Some(5000) ],
    [ pasteEvents |-> None, timeToFirstKeystroke |-> None, totalTimeMs |-> None ] }

-----------------------------------------------------------------------------
(* Data model: the objects interview-engine.js builds.  A key a            *)
(* constructor does not set is None.                                       *)

\* Keys of a slot object, over the three slot types and over the keys
\* scoring.js reads (selectedOption .. responseTimeMs are read there and in
\* buildTranscript and written by no handler).
EmptySlot ==
  [ index |-> 0, type |-> "", timestamp |-> 0, skipped |-> FALSE,
    answer |-> None, answerTimestamp |-> None, evaluation |-> None,
    followUps |-> None,
    options |-> None, correct |-> None,
    mcqJustification |-> None, mcqJustificationEval |-> None,
    code |-> None, codingEval |-> None, behaviorData |-> None,
    interruptionQuestion |-> None, interruptionResponses |-> None,
    selectedOption |-> None, selectionTimeMs |-> None, isCorrect |-> None,
    justification |-> None,
    justificationEval |-> None, codeEvaluation |-> None,
    responseTimeMs |-> None ]

SpokenSlot(slotIndex, T) ==
  [ EmptySlot EXCEPT !.index = slotIndex, !.type = "spoken", !.timestamp = T,
                     !.followUps = Some(<< >>) ]

MCQSlot(slotIndex, mcq, T) ==
  [ EmptySlot EXCEPT !.index = slotIndex, !.type = "mcq", !.timestamp = T,
                     !.options = Some(mcq.options), !.correct = mcq.correct ]

CodingSlot(slotIndex, T) ==
  [ EmptySlot EXCEPT !.index = slotIndex, !.type = "coding", !.timestamp = T ]

FollowUp(depth, T) ==
  [ answer |-> None, answerTimestamp |-> None, evaluation |-> None,
    depth |-> depth, timestamp |-> T ]

\* session.currentMCQ: the object generateMCQ returned, to which
\* submitMCQAnswer adds the selection and the justification prompt.
CurrentMCQ(mcq) ==
  [ options |-> mcq.options, correct |-> mcq.correct, topic |-> mcq.topic,
    selectedOption |-> None, selectionTimeMs |-> None, justifyQuestion |-> None ]

NewSession(id, T) ==
  [ id |-> id, state |-> "CREATED", currentSlotIndex |-> 0,
    currentFollowUpDepth |-> 0, coveredTopics |-> << >>, slots |-> << >>,
    startTime |-> T, endTime |-> None,
    currentMCQ |-> None, mcqJustifyPhase |-> None,
    currentCoding |-> None, codingInterrupted |-> FALSE,
    score |-> None, behaviorSignals |-> None ]

\* session.slots[i] (i counted from 0): None past the end of the array.
SlotAt(session, i) ==
  IF i >= 0 /\ i < Len(session.slots) THEN Some(session.slots[i + 1]) ELSE None

\* The session with slots[i] replaced.
WithSlot(session, i, slot) ==
  [ session EXCEPT !.slots = [ session.slots EXCEPT ![i + 1] = slot ] ]

PushSlot(session, slot) == [ session EXCEPT !.slots = Append(session.slots, slot) ]

PushTopic(session, topic) ==
  IF IsSome(topic)
    THEN [ session EXCEPT !.coveredTopics = Append(session.coveredTopics, Val(topic)) ]
    ELSE session

-----------------------------------------------------------------------------
(* Outcome of a call: the registry after it, the error thrown ("none"      *)
(* when the call returned), the number of oracle requests it made, the     *)
(* number of times it ran computeScore, and the kind of value returned.    *)

Outcome(store, err, calls, scored, ret) ==
  [ sessions |-> store, err |-> err, calls |-> calls, scored |-> scored, ret |-> ret ]

\* The call threw before touching the registry.
Rejected(err, calls) == Outcome(sessions, err, calls, 0, "thrown")

\* The call threw after leaving the session as `session`.
Thrown(session, err, calls) ==
  Outcome([ sessions EXCEPT ![session.id] = session ], err, calls, 0, "thrown")

Returned_sharedTopics(session, calls, scored) ==
  Outcome([ i \in DOMAIN sessions |->
              IF i = session.id THEN session
              ELSE [ sessions[i] EXCEPT !.coveredTopics = session.coveredTopics ] ],
          "none", calls, scored, "payload")

\* The call returned a prompt or a report.
Returned(session, calls, scored) ==
  Outcome([ sessions EXCEPT ![session.id] = session ], "none", calls, scored, "payload")

-----------------------------------------------------------------------------
(* Exact arithmetic for the scoring engine: a number is a fraction         *)
(* <<numerator, denominator>> with a positive denominator.                 *)

RECURSIVE GCD(_, _)
GCD(a, b) == IF b = 0 THEN a ELSE GCD(b, a % b)

Abs(x) == IF x < 0 THEN -x ELSE x

Frac(n, d) ==
  LET g == GCD(Abs(n), d) IN IF g = 0 THEN <<0, 1>> ELSE <<n \div g, d \div g>>

FInt(n) == <<n, 1>>

FAdd(a, b) == Frac(a[1] * b[2] + b[1] * a[2], a[2] * b[2])

FSub(a, b) == Frac(a[1] * b[2] - b[1] * a[2], a[2] * b[2])

FMul(a, b) == Frac(a[1] * b[1], a[2] * b[2])

FAbs(a) == <<Abs(a[1]), a[2]>>

FLeq(a, b) == a[1] * b[2] <= b[1] * a[2]

FGt(a, b) == ~FLeq(a, b)

\* Math.round: the nearest integer, halves rounded up.
MathRound(a) == (2 * a[1] + a[2]) \div (2 * a[2])

RECURSIVE SumSeq(_)
SumSeq(s) == IF s = << >> THEN 0 ELSE Head(s) + SumSeq(Tail(s))

RECURSIVE Flatten(_)
Flatten(ss) == IF ss = << >> THEN << >> ELSE Head(ss) \o Flatten(Tail(ss))

\* The mean of a non-empty array of integers.
Mean(s) == Frac(SumSeq(s), Len(s))

\* A number that is defined and not 0 (JavaScript truthiness of a number).
TruthyNum(o) == IsSome(o) /\ Val(o) # 0

\* A boolean that is defined and true.
TruthyBool(o) == IsSome(o) /\ Val(o) = TRUE

-----------------------------------------------------------------------------
(* scoring.js *)

\* WEIGHTS, in hundredths
WEIGHTS ==
  [ answerQuality |-> 30, depthStability |-> 20, mcqAccuracy |-> 15,
    codingScore |-> 15, behavioralTrust |-> 10, consistency |-> 10 ]

IsScoredSpoken(s) == s.type = "spoken" /\ ~s.skipped

IsScoredMCQ_withSkipped(s) == s.type = "mcq"

IsScoredMCQ(s) == s.type = "mcq" /\ ~s.skipped

IsScoredCoding(s) == s.type = "coding" /\ ~s.skipped

\* evaluation && evaluation.quality
HasQuality(rec) == IsSome(rec.evaluation) /\ TruthyNum(Val(rec.evaluation).quality)

QualityOf(rec) == Val(Val(rec.evaluation).quality)

\* The follow-up quality scores of a slot, in order.
FollowUpScores(slot) ==
  IF IsSome(slot.followUps)
    THEN LET scored == SelectSeq(Val(slot.followUps), HasQuality)
         IN [ i \in 1..Len(scored) |-> QualityOf(scored[i]) ]
    ELSE << >>

computeAnswerQuality(spokenSlots) ==
  LET slotScores(slot) ==
        (IF HasQuality(slot) THEN << QualityOf(slot) >> ELSE << >>)
          \o FollowUpScores(slot)
      scores == Flatten([ i \in 1..Len(spokenSlots) |-> slotScores(spokenSlots[i]) ])
  IN IF Len(spokenSlots) = 0 THEN FInt(0)
     ELSE IF Len(scores) = 0 THEN FInt(0)
     ELSE FMul(Mean(scores), FInt(10))

StabilityPoints_strictDrop(mainScore, fuScore) ==
  LET drop == mainScore - fuScore
  IN IF drop <= 0 THEN 100
     ELSE IF drop < 2 THEN 70
     ELSE IF drop < 4 THEN 40
     ELSE 10

\* The stability points of one follow-up score against the main score.
StabilityPoints(mainScore, fuScore) ==
  LET drop == mainScore - fuScore
  IN IF drop <= 0 THEN 100
     ELSE IF drop <= 2 THEN 70
     ELSE IF drop <= 4 THEN 40
     ELSE 10

computeDepthStability_zeroDefault(spokenSlots) ==
  LET slotPoints(slot) ==
        IF ~IsSome(slot.followUps) \/ Len(Val(slot.followUps)) = 0 THEN << >>
        ELSE IF ~HasQuality(slot) THEN << >>
        ELSE LET fu == FollowUpScores(slot)
             IN [ i \in 1..Len(fu) |-> StabilityPoints(QualityOf(slot), fu[i]) ]
      stabilityScores ==
        Flatten([ i \in 1..Len(spokenSlots) |-> slotPoints(spokenSlots[i]) ])
  IN IF Len(spokenSlots) = 0 THEN FInt(50)
     ELSE IF Len(stabilityScores) = 0 THEN FInt(0)
     ELSE Mean(stabilityScores)

computeDepthStability(spokenSlots) ==
  LET slotPoints(slot) ==
        IF ~IsSome(slot.followUps) \/ Len(Val(slot.followUps)) = 0 THEN << >>
        ELSE IF ~HasQuality(slot) THEN << >>
        ELSE LET fu == FollowUpScores(slot)
             IN [ i \in 1..Len(fu) |-> StabilityPoints(QualityOf(slot), fu[i]) ]
      stabilityScores ==
        Flatten([ i \in 1..Len(spokenSlots) |-> slotPoints(spokenSlots[i]) ])
  IN IF Len(spokenSlots) = 0 THEN FInt(50)
     ELSE IF Len(stabilityScores) = 0 THEN FInt(60)
     ELSE Mean(stabilityScores)

\* justificationEval && justificationEval.quality
HasJustificationQuality(slot) ==
  IsSome(slot.justificationEval) /\ TruthyNum(Val(slot.justificationEval).quality)

computeMCQAccuracy_noPartialCredit(mcqSlots) ==
  LET slotScore(slot) ==
        (IF TruthyBool(slot.isCorrect) THEN 50 ELSE 0)
          + (IF HasJustificationQuality(slot)
               THEN Val(Val(slot.justificationEval).quality) * 5
               ELSE 0)
  IN IF Len(mcqSlots) = 0 THEN FInt(50)
     ELSE Mean([ i \in 1..Len(mcqSlots) |-> slotScore(mcqSlots[i]) ])

computeMCQAccuracy(mcqSlots) ==
  LET slotScore(slot) ==
        (IF TruthyBool(slot.isCorrect) THEN 50 ELSE 0)
          + (IF HasJustificationQuality(slot)
               THEN Val(Val(slot.justificationEval).quality) * 5
               ELSE IF TruthyBool(slot.isCorrect) THEN 25 ELSE 0)
  IN IF Len(mcqSlots) = 0 THEN FInt(50)
     ELSE Mean([ i \in 1..Len(mcqSlots) |-> slotScore(mcqSlots[i]) ])

computeCodingScore(codingSlots) ==
  LET orZero(o) == IF TruthyNum(o) THEN Val(o) ELSE 0
      slotScore(slot) ==
        IF IsSome(slot.codeEvaluation)
          THEN FMul(Frac(orZero(Val(slot.codeEvaluation).codeQuality)
                           + orZero(Val(slot.codeEvaluation).logic), 2), FInt(10))
          ELSE FInt(0)
      RECURSIVE total(_)
      total(i) == IF i = 0 THEN FInt(0) ELSE FAdd(total(i - 1), slotScore(codingSlots[i]))
  IN IF Len(codingSlots) = 0 THEN FInt(50)
     ELSE FMul(total(Len(codingSlots)), Frac(1, Len(codingSlots)))

IsPasteSignal(sig) == sig.type = "paste"

\* session.behaviorSignals || []
SignalsOf(session) ==
  IF IsSome(session.behaviorSignals) THEN Val(session.behaviorSignals) ELSE << >>

\* behavior.<key> && behavior.<key> < limit, over slot.behaviorData || {}
BehaviorBelow(slot, key, limit) ==
  /\ IsSome(slot.behaviorData)
  /\ TruthyNum(Val(slot.behaviorData)[key])
  /\ Val(Val(slot.behaviorData)[key]) < limit

InstantKeystrokeMs == 3000

FastCodingMs == 30000

FastAnswerMs == 5000

MaxFastAnswers == 3

IsInstantCoding(slot) == BehaviorBelow(slot, "timeToFirstKeystroke", InstantKeystrokeMs)

IsFastCoding(slot) == BehaviorBelow(slot, "totalTimeMs", FastCodingMs)

IsFastAnswer(slot) == TruthyNum(slot.responseTimeMs) /\ Val(slot.responseTimeMs) < FastAnswerMs

Min(a, b) == IF a <= b THEN a ELSE b

Max(a, b) == IF a >= b THEN a ELSE b

computeBehavioralTrust_noFloor(session) ==
  LET pasteCount == Len(SelectSeq(SignalsOf(session), IsPasteSignal))
      codingSlots == SelectSeq(session.slots, IsScoredCoding)
      spokenSlots == SelectSeq(session.slots, IsScoredSpoken)
      fastAnswers == Len(SelectSeq(spokenSlots, IsFastAnswer))
  IN FInt(100
            - (IF pasteCount > 0 THEN Min(30, pasteCount * 15) ELSE 0)
            - 20 * Len(SelectSeq(codingSlots, IsInstantCoding))
            - 15 * Len(SelectSeq(codingSlots, IsFastCoding))
            - (IF fastAnswers > MaxFastAnswers THEN 15 ELSE 0))

computeBehavioralTrust(session) ==
  LET pasteCount == Len(SelectSeq(SignalsOf(session), IsPasteSignal))
      codingSlots == SelectSeq(session.slots, IsScoredCoding)
      spokenSlots == SelectSeq(session.slots, IsScoredSpoken)
      fastAnswers == Len(SelectSeq(spokenSlots, IsFastAnswer))
      trust == 100
                 - (IF pasteCount > 0 THEN Min(30, pasteCount * 15) ELSE 0)
                 - 20 * Len(SelectSeq(codingSlots, IsInstantCoding))
                 - 15 * Len(SelectSeq(codingSlots, IsFastCoding))
                 - (IF fastAnswers > MaxFastAnswers THEN 15 ELSE 0)
  IN FInt(Max(0, trust))

computeConsistency(spokenSlots, mcqSlots) ==
  LET spokenAvg == FMul(computeAnswerQuality(spokenSlots), Frac(1, 10))
      mcqAvg == FMul(computeMCQAccuracy(mcqSlots), Frac(1, 10))
      gap == FAbs(FSub(spokenAvg, mcqAvg))
  IN IF Len(spokenSlots) = 0 \/ Len(mcqSlots) = 0 THEN FInt(70)
     ELSE IF FLeq(gap, FInt(2)) THEN FInt(100)
     ELSE IF FLeq(gap, FInt(4)) THEN FInt(70)
     ELSE IF FLeq(gap, FInt(6)) THEN FInt(40)
     ELSE FInt(15)

RiskFlag(type, severity, label) == [ type |-> type, severity |-> severity, label |-> label ]

\* The lengths of the pieces of text.split(/\s+/).
RECURSIVE wordLengthsFrom(_, _, _, _)
wordLengthsFrom(cs, i, cur, inSep) ==
  IF i > Len(cs) THEN << cur >>
  ELSE IF cs[i] \in WhiteSpace
    THEN (IF inSep THEN << >> ELSE << cur >>) \o wordLengthsFrom(cs, i + 1, 0, TRUE)
  ELSE wordLengthsFrom(cs, i + 1, cur + 1, FALSE)

wordLengths(text) == wordLengthsFrom(Chars(text), 1, 0, FALSE)

detectRiskFlags(session, spokenSlots, mcqSlots, codingSlots) ==
  LET decays(slot) ==
        LET mainQ == IF HasQuality(slot) THEN QualityOf(slot) ELSE 0
            fuScores == FollowUpScores(slot)
        IN /\ IsSome(slot.evaluation) /\ IsSome(slot.followUps)
           /\ mainQ >= 7 /\ Len(fuScores) > 0
           /\ FLeq(Mean(fuScores), FInt(3))
      decayFlags ==
        Flatten([ i \in 1..Len(spokenSlots) |->
                    IF decays(spokenSlots[i])
                      THEN << RiskFlag("confidence_decay", "warning", "Shallow Understanding") >>
                      ELSE << >> ])
      pasteFlags ==
        IF Len(SelectSeq(SignalsOf(session), IsPasteSignal)) > 0
          THEN << RiskFlag("paste_detected", "danger", "Code Pasted") >>
          ELSE << >>
      instantFlags ==
        Flatten([ i \in 1..Len(codingSlots) |->
                    IF IsInstantCoding(codingSlots[i])
                      THEN << RiskFlag("instant_coding", "danger", "Suspiciously Fast Coding") >>
                      ELSE << >> ])
      spokenWordLengths ==
        Flatten([ i \in 1..Len(spokenSlots) |->
                    IF IsSome(spokenSlots[i].answer) /\ Val(spokenSlots[i].answer) # SkippedAnswer
                      THEN wordLengths(Val(spokenSlots[i].answer))
                      ELSE << >> ])
      justificationWordLengths ==
        Flatten([ i \in 1..Len(mcqSlots) |->
                    IF IsSome(mcqSlots[i].justification)
                      THEN wordLengths(Val(mcqSlots[i].justification))
                      ELSE << >> ])
      vocabularyFlags ==
        IF /\ Len(spokenWordLengths) > 10
           /\ Len(justificationWordLengths) > 5
           /\ FGt(Mean(justificationWordLengths), FAdd(Mean(spokenWordLengths), Frac(5, 2)))
          THEN << RiskFlag("vocabulary_jump", "warning", "Vocabulary Inconsistency") >>
          ELSE << >>
      mismatchFlags ==
        Flatten([ i \in 1..Len(mcqSlots) |->
                    IF /\ TruthyBool(mcqSlots[i].isCorrect)
                       /\ HasJustificationQuality(mcqSlots[i])
                       /\ Val(Val(mcqSlots[i].justificationEval).quality) <= 3
                      THEN << RiskFlag("mcq_spoken_mismatch", "warning", "Surface Knowledge") >>
                      ELSE << >> ])
  IN decayFlags \o pasteFlags \o instantFlags \o vocabularyFlags \o mismatchFlags

getGrade_strictBands(score) ==
  IF score > 90 THEN [ letter |-> "A+", label |-> "Exceptional" ]
  ELSE IF score > 80 THEN [ letter |-> "A", label |-> "Excellent" ]
  ELSE IF score > 70 THEN [ letter |-> "B+", label |-> "Very Good" ]
  ELSE IF score > 60 THEN [ letter |-> "B", label |-> "Good" ]
  ELSE IF score > 50 THEN [ letter |-> "C+", label |-> "Average" ]
  ELSE IF score > 40 THEN [ letter |-> "C", label |-> "Below Average" ]
  ELSE IF score > 30 THEN [ letter |-> "D", label |-> "Needs Improvement" ]
  ELSE [ letter |-> "F", label |-> "Not Ready" ]

getGrade(score) ==
  IF score >= 90 THEN [ letter |-> "A+", label |-> "Exceptional" ]
  ELSE IF score >= 80 THEN [ letter |-> "A", label |-> "Excellent" ]
  ELSE IF score >= 70 THEN [ letter |-> "B+", label |-> "Very Good" ]
  ELSE IF score >= 60 THEN [ letter |-> "B", label |-> "Good" ]
  ELSE IF score >= 50 THEN [ letter |-> "C+", label |-> "Average" ]
  ELSE IF score >= 40 THEN [ letter |-> "C", label |-> "Below Average" ]
  ELSE IF score >= 30 THEN [ letter |-> "D", label |-> "Needs Improvement" ]
  ELSE [ letter |-> "F", label |-> "Not Ready" ]

IsSkipped(s) == s.skipped

IsNotSkipped(s) == ~s.skipped

computeScore(session) ==
  LET slots == session.slots
      spokenSlots == SelectSeq(slots, IsScoredSpoken)
      mcqSlots == SelectSeq(slots, IsScoredMCQ)
      codingSlots == SelectSeq(slots, IsScoredCoding)
      answerQuality == computeAnswerQuality(spokenSlots)
      depthStability == computeDepthStability(spokenSlots)
      mcqAccuracy == computeMCQAccuracy(mcqSlots)
      codingScore == computeCodingScore(codingSlots)
      behavioralTrust == computeBehavioralTrust(session)
      consistency == computeConsistency(spokenSlots, mcqSlots)
      weighted(x, w) == FMul(x, Frac(w, 100))
      composite ==
        MathRound(
          FAdd(FAdd(FAdd(FAdd(FAdd(
            weighted(answerQuality, WEIGHTS.answerQuality),
            weighted(depthStability, WEIGHTS.depthStability)),
            weighted(mcqAccuracy, WEIGHTS.mcqAccuracy)),
            weighted(codingScore, WEIGHTS.codingScore)),
            weighted(behavioralTrust, WEIGHTS.behavioralTrust)),
            weighted(consistency, WEIGHTS.consistency)))
  IN [ overall |-> composite,
       grade |-> getGrade(composite),
       breakdown |->
         [ answerQuality |-> MathRound(answerQuality),
           depthStability |-> MathRound(depthStability),
           mcqAccuracy |-> MathRound(mcqAccuracy),
           codingScore |-> MathRound(codingScore),
           behavioralTrust |-> MathRound(behavioralTrust),
           consistency |-> MathRound(consistency) ],
       riskFlags |-> detectRiskFlags(session, spokenSlots, mcqSlots, codingSlots),
       totalAnswered |-> Len(SelectSeq(slots, IsNotSkipped)),
       totalSkipped |-> Len(SelectSeq(slots, IsSkipped)) ]

-----------------------------------------------------------------------------
(* interview-engine.js.  T is the value Date.now() returns during the      *)
(* call: later than every timestamp stored so far.                         *)

T == now + 1

createSession ==
  LET id == Cardinality(DOMAIN sessions) + 1
  IN Outcome([ i \in DOMAIN sessions \cup {id} |->
                 IF i = id THEN NewSession(id, T) ELSE sessions[i] ],
             "none", 0, 0, "payload")

\* getSession: sessions.get(sessionId) || null
getSession(sessionId) ==
  IF sessionId \in DOMAIN sessions THEN Some(sessions[sessionId]) ELSE None

completeInterview_noEndTime(session, calls) ==
  LET done == [ session EXCEPT !.state = "COMPLETED" ]
  IN Returned([ done EXCEPT !.score = Some(computeScore(done)) ], calls, 1)

completeInterview(session, calls) ==
  LET done == [ session EXCEPT !.state = "COMPLETED", !.endTime = Some(T) ]
  IN Returned([ done EXCEPT !.score = Some(computeScore(done)) ], calls, 1)

generateSpokenSlot(session, slotIndex, reply, calls) ==
  LET s1 == [ session EXCEPT
                !.state = IF slotIndex = 0 THEN "WARMUP" ELSE "CORE_QUESTION" ]
  IN IF reply.throws THEN Thrown(s1, "OracleError", calls + 1)
     ELSE Returned(PushSlot(s1, SpokenSlot(slotIndex, T)), calls + 1, 0)

generateMCQSlot(session, reply, calls) ==
  LET s1 == [ session EXCEPT !.state = "MCQ" ]
      mcq == generateMCQ(reply)
      s2 == PushTopic([ s1 EXCEPT !.currentMCQ = Some(CurrentMCQ(mcq)) ], mcq.topic)
  IN IF reply.throws THEN Thrown(s1, "OracleError", calls + 1)
     ELSE Returned(PushSlot(s2, MCQSlot(s2.currentSlotIndex, mcq, T)), calls + 1, 0)

generateCodingSlot(session, reply, calls) ==
  LET s1 == [ session EXCEPT !.state = "CODING", !.codingInterrupted = FALSE ]
      coding == generateCodingQuestion(reply)
      s2 == PushTopic([ s1 EXCEPT !.currentCoding = Some(coding) ], coding.topic)
  IN IF reply.throws THEN Thrown(s1, "OracleError", calls + 1)
     ELSE Returned(PushSlot(s2, CodingSlot(s2.currentSlotIndex, T)), calls + 1, 0)

advanceToNextSlot_twoSteps(session, reply, calls) ==
  LET s1 == [ session EXCEPT !.currentFollowUpDepth = 0,
                             !.currentSlotIndex = @ + 2 ]
      slotIndex == s1.currentSlotIndex
      slotType == slotTypes[slotIndex + 1]
  IN IF slotIndex >= totalSlots THEN completeInterview(s1, calls)
     ELSE IF slotType = "mcq" THEN generateMCQSlot(s1, reply, calls)
     ELSE IF slotType = "coding" THEN generateCodingSlot(s1, reply, calls)
     ELSE generateSpokenSlot(s1, slotIndex, reply, calls)

advanceToNextSlot_keepDepth(session, reply, calls) ==
  LET s1 == [ session EXCEPT !.currentSlotIndex = @ + 1 ]
      slotIndex == s1.currentSlotIndex
      slotType == slotTypes[slotIndex + 1]
  IN IF slotIndex >= totalSlots THEN completeInterview(s1, calls)
     ELSE IF slotType = "mcq" THEN generateMCQSlot(s1, reply, calls)
     ELSE IF slotType = "coding" THEN generateCodingSlot(s1, reply, calls)
     ELSE generateSpokenSlot(s1, slotIndex, reply, calls)

advanceToNextSlot(session, reply, calls) ==
  LET s1 == [ session EXCEPT !.currentFollowUpDepth = 0,
                             !.currentSlotIndex = @ + 1 ]
      slotIndex == s1.currentSlotIndex
      slotType == slotTypes[slotIndex + 1]
  IN IF slotIndex >= totalSlots THEN completeInterview(s1, calls)
     ELSE IF slotType = "mcq" THEN generateMCQSlot(s1, reply, calls)
     ELSE IF slotType = "coding" THEN generateCodingSlot(s1, reply, calls)
     ELSE generateSpokenSlot(s1, slotIndex, reply, calls)

startInterview_noStateCheck(sessionId, reply) ==
  IF sessionId \notin DOMAIN sessions THEN Rejected("Session not found", 0)
  ELSE LET session == sessions[sessionId]
           s1 == [ session EXCEPT !.state = "WARMUP", !.currentSlotIndex = 0 ]
       IN IF reply.throws THEN Thrown(s1, "OracleError", 1)
          ELSE Returned(PushSlot(s1, SpokenSlot(0, T)), 1, 0)

startInterview(sessionId, reply) ==
  IF sessionId \notin DOMAIN sessions THEN Rejected("Session not found", 0)
  ELSE LET session == sessions[sessionId]
           s1 == [ session EXCEPT !.state = "WARMUP", !.currentSlotIndex = 0 ]
       IN IF session.state # "CREATED" THEN Rejected("Interview already started", 0)
          ELSE IF reply.throws THEN Thrown(s1, "OracleError", 1)
          ELSE Returned(PushSlot(s1, SpokenSlot(0, T)), 1, 0)

\* evaluation?.answer_quality ?? 5 of the answer just evaluated
getLastEvalQuality(slot, followUpDepth) ==
  LET qualityOr5(evaluation) ==
        IF IsSome(evaluation) /\ IsSome(Val(evaluation).answer_quality)
          THEN Val(Val(evaluation).answer_quality)
          ELSE 5
      followUps == Val(slot.followUps)
  IN IF followUpDepth > 0
       THEN IF followUpDepth <= Len(followUps)
              THEN qualityOr5(followUps[followUpDepth].evaluation)
              ELSE 5
       ELSE qualityOr5(slot.evaluation)

\* The part of submitAnswer after the answer is recorded and evaluated
\* (IDK detection, follow-up decision); slotIndex and currentSlot are the
\* locals the handler took on entry.
decideFollowUp(session, slotIndex, answer, genReply) ==
  LET currentSlot == session.slots[slotIndex + 1]
      isIdkAnswer == detectDontKnow(answer)
      lastQuality == getLastEvalQuality(currentSlot, session.currentFollowUpDepth)
      shouldSkipFollowUps == isIdkAnswer \/ lastQuality <= 2
      s1 == [ session EXCEPT !.currentFollowUpDepth = @ + 1, !.state = "FOLLOW_UP" ]
      pushed ==
        [ currentSlot EXCEPT
            !.followUps = Some(Append(Val(@), FollowUp(s1.currentFollowUpDepth, T))) ]
  IN IF session.currentFollowUpDepth < maxFollowUps /\ ~shouldSkipFollowUps
       THEN IF genReply.throws THEN Thrown(s1, "OracleError", 2)
            ELSE IF ~IsSome(currentSlot.followUps) THEN Thrown(s1, "TypeError", 2)
            ELSE Returned(WithSlot(s1, slotIndex, pushed), 2, 0)
       ELSE advanceToNextSlot(session, genReply, 1)

submitAnswer(sessionId, answer, evalReply, genReply) ==
  IF sessionId \notin DOMAIN sessions THEN Rejected("Session not found", 0)
  ELSE
    LET session == sessions[sessionId]
        slotIndex == session.currentSlotIndex
        slot == SlotAt(session, slotIndex)
        currentSlot == Val(slot)
        depth == session.currentFollowUpDepth
        evaluation == evaluateAnswer(evalReply)
        \* follow-up answer
        followUps == Val(currentSlot.followUps)
        fuAnswered ==
          [ followUps EXCEPT ![depth] = [ @ EXCEPT !.answer = Some(answer),
                                                  !.answerTimestamp = Some(T) ] ]
        fuEvaluated ==
          [ fuAnswered EXCEPT ![depth] = [ @ EXCEPT !.evaluation = Some(evaluation) ] ]
        \* main answer
        answered == [ currentSlot EXCEPT !.answer = Some(answer),
                                         !.answerTimestamp = Some(T) ]
        evaluated == [ answered EXCEPT !.evaluation = Some(evaluation) ]
        withTopics ==
          [ WithSlot(session, slotIndex, evaluated) EXCEPT
              !.coveredTopics = @ \o evaluation.concept_coverage ]
    IN IF session.state = "COMPLETED" THEN Rejected("Interview already completed", 0)
       ELSE IF ~IsSome(slot) THEN Rejected("TypeError", 0)
       ELSE IF depth > 0
         THEN IF ~IsSome(currentSlot.followUps) \/ depth > Len(followUps)
                THEN Rejected("TypeError", 0)
              ELSE IF evalReply.throws
                THEN Thrown(WithSlot(session, slotIndex,
                                     [ currentSlot EXCEPT !.followUps = Some(fuAnswered) ]),
                            "OracleError", 1)
              ELSE decideFollowUp(
                     WithSlot(session, slotIndex,
                              [ currentSlot EXCEPT !.followUps = Some(fuEvaluated) ]),
                     slotIndex, answer, genReply)
         ELSE IF evalReply.throws
                THEN Thrown(WithSlot(session, slotIndex, answered), "OracleError", 1)
              ELSE decideFollowUp(withTopics, slotIndex, answer, genReply)

submitMCQAnswer_noStateCheck(sessionId, selectedOption, selectionTimeMs, reply) ==
  IF sessionId \notin DOMAIN sessions THEN Rejected("Session not found", 0)
  ELSE
    LET session == sessions[sessionId]
        mcq == [ Val(session.currentMCQ) EXCEPT
                   !.selectedOption = Some(selectedOption),
                   !.selectionTimeMs = Some(selectionTimeMs) ]
        s1 == [ session EXCEPT !.currentMCQ = Some(mcq), !.state = "MCQ_JUSTIFY",
                               !.mcqJustifyPhase = Some("why_chose") ]
        s2 == [ s1 EXCEPT
                  !.currentMCQ = Some([ mcq EXCEPT !.justifyQuestion = Some("why") ]) ]
    IN IF ~IsSome(session.currentMCQ) THEN Rejected("TypeError", 0)
       ELSE IF reply.throws THEN Thrown(s1, "OracleError", 1)
       ELSE Returned(s2, 1, 0)

submitMCQAnswer(sessionId, selectedOption, selectionTimeMs, reply) ==
  IF sessionId \notin DOMAIN sessions THEN Rejected("Session not found", 0)
  ELSE
    LET session == sessions[sessionId]
        mcq == [ Val(session.currentMCQ) EXCEPT
                   !.selectedOption = Some(selectedOption),
                   !.selectionTimeMs = Some(selectionTimeMs) ]
        s1 == [ session EXCEPT !.currentMCQ = Some(mcq), !.state = "MCQ_JUSTIFY",
                               !.mcqJustifyPhase = Some("why_chose") ]
        s2 == [ s1 EXCEPT
                  !.currentMCQ = Some([ mcq EXCEPT !.justifyQuestion = Some("why") ]) ]
    IN IF session.state # "MCQ" THEN Rejected("Not in MCQ state", 0)
       ELSE IF ~IsSome(session.currentMCQ) THEN Rejected("TypeError", 0)
       ELSE IF reply.throws THEN Thrown(s1, "OracleError", 1)
       ELSE Returned(s2, 1, 0)

submitMCQJustification_noStateCheck(sessionId, justification, evalReply, genReply) ==
  IF sessionId \notin DOMAIN sessions THEN Rejected("Session not found", 0)
  ELSE
    LET session == sessions[sessionId]
        evaluation == evaluateAnswer(evalReply)
        slot == SlotAt(session, session.currentSlotIndex)
        stored == [ Val(slot) EXCEPT !.mcqJustification = Some(justification),
                                     !.mcqJustificationEval = Some(evaluation) ]
    IN IF ~IsSome(session.currentMCQ) THEN Rejected("TypeError", 0)
       ELSE IF evalReply.throws THEN Rejected("OracleError", 1)
       ELSE IF ~IsSome(slot) THEN Rejected("TypeError", 1)
       ELSE advanceToNextSlot(WithSlot(session, session.currentSlotIndex, stored),
                              genReply, 1)

submitMCQJustification(sessionId, justification, evalReply, genReply) ==
  IF sessionId \notin DOMAIN sessions THEN Rejected("Session not found", 0)
  ELSE
    LET session == sessions[sessionId]
        evaluation == evaluateAnswer(evalReply)
        slot == SlotAt(session, session.currentSlotIndex)
        stored == [ Val(slot) EXCEPT !.mcqJustification = Some(justification),
                                     !.mcqJustificationEval = Some(evaluation) ]
    IN IF session.state # "MCQ_JUSTIFY" THEN Rejected("Not in MCQ justify state", 0)
       ELSE IF ~IsSome(session.currentMCQ) THEN Rejected("TypeError", 0)
       ELSE IF evalReply.throws THEN Rejected("OracleError", 1)
       ELSE IF ~IsSome(slot) THEN Rejected("TypeError", 1)
       ELSE advanceToNextSlot(WithSlot(session, session.currentSlotIndex, stored),
                              genReply, 1)

submitCode(sessionId, code, behaviorData, evalReply, genReply) ==
  IF sessionId \notin DOMAIN sessions THEN Rejected("Session not found", 0)
  ELSE
    LET session == sessions[sessionId]
        slot == SlotAt(session, session.currentSlotIndex)
        evaluation == evaluateCodingAnswer(evalReply)
        stored == [ Val(slot) EXCEPT !.code = Some(code),
                                     !.codingEval = Some(evaluation),
                                     !.behaviorData = Some(behaviorData) ]
    IN IF ~IsSome(session.currentCoding) THEN Rejected("TypeError", 0)
       ELSE IF evalReply.throws THEN Rejected("OracleError", 1)
       ELSE IF ~IsSome(slot) THEN Rejected("TypeError", 1)
       ELSE advanceToNextSlot(WithSlot(session, session.currentSlotIndex, stored),
                              genReply, 1)

submitInterruptionResponse_keepState(sessionId, response) ==
  IF sessionId \notin DOMAIN sessions THEN Rejected("Session not found", 0)
  ELSE
    LET session == sessions[sessionId]
        slot == SlotAt(session, session.currentSlotIndex)
        responses ==
          IF IsSome(Val(slot).interruptionResponses)
            THEN Val(Val(slot).interruptionResponses)
            ELSE << >>
        entry == [ question |-> Val(slot).interruptionQuestion,
                   answer |-> response, timestamp |-> T ]
        stored == [ Val(slot) EXCEPT
                      !.interruptionResponses = Some(Append(responses, entry)) ]
        s1 == [ WithSlot(session, session.currentSlotIndex, stored) EXCEPT
                  !.codingInterrupted = TRUE ]
    IN IF ~IsSome(slot) THEN Rejected("TypeError", 0)
       ELSE Returned(s1, 0, 0)

submitInterruptionResponse(sessionId, response) ==
  IF sessionId \notin DOMAIN sessions THEN Rejected("Session not found", 0)
  ELSE
    LET session == sessions[sessionId]
        slot == SlotAt(session, session.currentSlotIndex)
        responses ==
          IF IsSome(Val(slot).interruptionResponses)
            THEN Val(Val(slot).interruptionResponses)
            ELSE << >>
        entry == [ question |-> Val(slot).interruptionQuestion,
                   answer |-> response, timestamp |-> T ]
        stored == [ Val(slot) EXCEPT
                      !.interruptionResponses = Some(Append(responses, entry)) ]
        s1 == [ WithSlot(session, session.currentSlotIndex, stored) EXCEPT
                  !.codingInterrupted = TRUE, !.state = "CODING" ]
    IN IF ~IsSome(slot) THEN Rejected("TypeError", 0)
       ELSE Returned(s1, 0, 0)

triggerCodingInterruption_oracleFirst(sessionId, reply) ==
  IF sessionId \notin DOMAIN sessions THEN Rejected("Session not found", 1)
  ELSE
    LET session == sessions[sessionId]
        slot == SlotAt(session, session.currentSlotIndex)
        stored == [ Val(slot) EXCEPT !.interruptionQuestion = Some("why this approach") ]
        s1 == [ WithSlot(session, session.currentSlotIndex, stored) EXCEPT
                  !.state = "CODING_INTERRUPT" ]
    IN IF session.codingInterrupted THEN Outcome(sessions, "none", 1, 0, "null")
       ELSE IF ~IsSome(session.currentCoding) THEN Rejected("TypeError", 1)
       ELSE IF reply.throws THEN Rejected("OracleError", 1)
       ELSE IF ~IsSome(slot) THEN Rejected("TypeError", 1)
       ELSE Returned(s1, 1, 0)

triggerCodingInterruption(sessionId, reply) ==
  IF sessionId \notin DOMAIN sessions THEN Rejected("Session not found", 0)
  ELSE
    LET session == sessions[sessionId]
        slot == SlotAt(session, session.currentSlotIndex)
        stored == [ Val(slot) EXCEPT !.interruptionQuestion = Some("why this approach") ]
        s1 == [ WithSlot(session, session.currentSlotIndex, stored) EXCEPT
                  !.state = "CODING_INTERRUPT" ]
    IN IF session.codingInterrupted THEN Outcome(sessions, "none", 0, 0, "null")
       ELSE IF ~IsSome(session.currentCoding) THEN Rejected("TypeError", 0)
       ELSE IF reply.throws THEN Rejected("OracleError", 1)
       ELSE IF ~IsSome(slot) THEN Rejected("TypeError", 1)
       ELSE Returned(s1, 1, 0)

skipQuestion(sessionId, reply) ==
  IF sessionId \notin DOMAIN sessions THEN Rejected("Session not found", 0)
  ELSE
    LET session == sessions[sessionId]
        lastIndex == Len(session.slots) - 1
        currentSlot == SlotAt(session, lastIndex)
        marked ==
          IF IsSome(currentSlot)
            THEN WithSlot(session, lastIndex,
                          [ Val(currentSlot) EXCEPT !.skipped = TRUE,
                                                    !.answer = Some(SkippedAnswer) ])
            ELSE session
    IN advanceToNextSlot(marked, reply, 0)

-----------------------------------------------------------------------------
(* The callers.  The scripted client (the loop of test-v2.js) answers each *)
(* prompt with the call matching the state it was given, with nominal      *)
(* arguments; the oracle nominally returns well-formed replies.  Every     *)
(* other call or reply is a deviation, of which a run has at most          *)
(* MaxDeviations: a call on a session other than the client's, a call the  *)
(* prompt did not ask for, a call with an unusual argument, a call the     *)
(* oracle answers with a failure or a malformed reply.                     *)

\* The session the scripted client drives: the first one created.
ClientSession == 1

ExpectedOp(state) ==
  CASE state = "CREATED" -> "start"
    [] state \in { "WARMUP", "CORE_QUESTION", "FOLLOW_UP" } -> "submitAnswer"
    [] state = "MCQ" -> "submitMCQAnswer"
    [] state = "MCQ_JUSTIFY" -> "submitMCQJustification"
    [] state = "CODING" -> "submitCode"
    [] state = "CODING_INTERRUPT" -> "submitInterruptionResponse"
    [] state = "COMPLETED" -> "none"

\* The browser client (public/js/interview.js) also asks for the coding
\* interruption, once per coding prompt, while the candidate is typing.
TimerFires(op, session) ==
  /\ op = "triggerCodingInterruption"
  /\ session.state = "CODING"
  /\ ~session.codingInterrupted

\* The last call on the client's session threw: the client loop is in its
\* catch block.
ClientFailed == last.id = ClientSession /\ last.err # "none"

\* After a call that threw, the client loop tries skip once to recover, and
\* gives up when that throws too; otherwise it makes the call matching the
\* prompt.
Scripted(op, sessionId) ==
  /\ sessionId = ClientSession
  /\ sessionId \in DOMAIN sessions
  /\ IF ClientFailed
       THEN op = "skip" /\ last.op # "skip"
       ELSE \/ ExpectedOp(sessions[sessionId].state) = op
            \/ TimerFires(op, sessions[sessionId])

\* A call is a deviation unless the scripted client makes it, with nominal
\* arguments, and the oracle answers it nominally.
Cost(op, sessionId, nominal) == IF Scripted(op, sessionId) /\ nominal THEN 0 ELSE 1

PreState(sessionId) ==
  IF sessionId \in DOMAIN sessions THEN sessions[sessionId].state ELSE "NONE"

\* The calls that answer a prompt.
SubmitOps == { "submitAnswer", "submitMCQAnswer", "submitMCQJustification", "submitCode" }

\* The number of submissions the client's session has received once the
\* call op on session sessionId is counted.
Submitted(op, sessionId) ==
  last.submissions + (IF sessionId = ClientSession /\ op \in SubmitOps THEN 1 ELSE 0)

\* Every call the client's session has received so far, the call op on
\* session sessionId included, was the one matching the prompt (or the
\* browser timer's interruption request), and no oracle call made for it
\* failed.
Compliant(op, sessionId, err) ==
  /\ last.compliant
  /\ (sessionId = ClientSession /\ op \notin { "createSession", "getSession" })
       => /\ sessionId \in DOMAIN sessions
          /\ \/ ExpectedOp(sessions[sessionId].state) = op
             \/ TimerFires(op, sessions[sessionId])
          /\ err # "OracleError"

\* The step of one call that runs from admission to return with no other
\* call in between: the registry becomes what the handler left, and `last`
\* records the call and how it ended.  inflight holds the calls suspended at
\* an await.
Apply(op, sessionId, r, cost, answer, evalThrew, evalUnparsable) ==
  /\ deviations + cost <= MaxDeviations
  /\ deviations' = deviations + cost
  /\ sessions' = r.sessions
  /\ now' = IF r.sessions # sessions THEN T ELSE now
  /\ scoreCalls' =
       [ i \in DOMAIN r.sessions |->
           (IF i \in DOMAIN scoreCalls THEN scoreCalls[i] ELSE 0)
             + (IF i = sessionId THEN r.scored ELSE 0) ]
  /\ last' = [ op |-> op, id |-> sessionId, err |-> r.err, calls |-> r.calls,
               ret |-> r.ret, pre |-> PreState(sessionId),
               answer |-> answer, evalThrew |-> evalThrew,
               evalUnparsable |-> evalUnparsable,
               submissions |-> Submitted(op, sessionId),
               compliant |-> Compliant(op, sessionId, r.err) ]
  /\ inflight' = inflight

CreateSession ==
  /\ Cardinality(DOMAIN sessions) < MaxSessions
  /\ Apply("createSession", Cardinality(DOMAIN sessions) + 1, createSession,
           IF DOMAIN sessions = {} THEN 0 ELSE 1, None, FALSE, FALSE)

GetSession ==
  \E id \in IdSpace :
    Apply("getSession", id,
          Outcome(sessions, "none", 0, 0,
                  IF getSession(id) = None THEN "null" ELSE "payload"),
          1, None, FALSE, FALSE)

StartInterview ==
  \E id \in IdSpace, reply \in GenReplies :
    Apply("start", id, startInterview(id, reply),
          Cost("start", id, reply = NominalReply), None, FALSE, FALSE)

SubmitAnswer ==
  \E id \in IdSpace, answer \in Answers, evalReply \in EvalReplies, genReply \in GenReplies :
    Apply("submitAnswer", id, submitAnswer(id, answer, evalReply, genReply),
          Cost("submitAnswer", id,
               answer = NormalAnswer /\ evalReply = NominalReply
                 /\ genReply = NominalReply),
          Some(answer), evalReply.throws, ~evalReply.parsable)

SubmitMCQAnswer ==
  \E id \in IdSpace, selectedOption \in SelectedOptions, reply \in GenReplies :
    Apply("submitMCQAnswer", id, submitMCQAnswer(id, selectedOption, 5000, reply),
          Cost("submitMCQAnswer", id,
               selectedOption = OptionA /\ reply = NominalReply),
          Some(selectedOption), FALSE, FALSE)

SubmitMCQJustification ==
  \E id \in IdSpace, evalReply \in EvalReplies, genReply \in GenReplies :
    Apply("submitMCQJustification", id,
          submitMCQJustification(id, NormalJustification, evalReply, genReply),
          Cost("submitMCQJustification", id,
               evalReply = NominalReply /\ genReply = NominalReply),
          None, evalReply.throws, ~evalReply.parsable)

SubmitCode ==
  \E id \in IdSpace, behaviorData \in BehaviorDatas,
     evalReply \in { NominalReply, ThrowingReply, UnparsableReply },
     genReply \in GenReplies :
    Apply("submitCode", id, submitCode(id, "code", behaviorData, evalReply, genReply),
          Cost("submitCode", id,
               behaviorData = NominalBehavior /\ evalReply = NominalReply
                 /\ genReply = NominalReply),
          None, evalReply.throws, ~evalReply.parsable)

TriggerCodingInterruption ==
  \E id \in IdSpace, reply \in { NominalReply, ThrowingReply } :
    Apply("triggerCodingInterruption", id, triggerCodingInterruption(id, reply),
          Cost("triggerCodingInterruption", id, reply = NominalReply), None, FALSE, FALSE)

SubmitInterruptionResponse ==
  \E id \in IdSpace :
    Apply("submitInterruptionResponse", id,
          submitInterruptionResponse(id, NormalAnswer),
          Cost("submitInterruptionResponse", id, TRUE), None, FALSE, FALSE)

SkipQuestion ==
  \E id \in IdSpace, reply \in GenReplies :
    Apply("skip", id, skipQuestion(id, reply),
          Cost("skip", id, reply = NominalReply), None, FALSE, FALSE)

Init ==
  /\ sessions = << >>
  /\ now = 0
  /\ scoreCalls = << >>
  /\ deviations = 0
  /\ last = [ op |-> "init", id |-> 0, err |-> "none", calls |-> 0,
              ret |-> "payload", pre |-> "NONE", answer |-> None,
              evalThrew |-> FALSE, evalUnparsable |-> FALSE, submissions |-> 0,
              compliant |-> TRUE ]
  /\ inflight = << >>

Next ==
  \/ CreateSession
  \/ GetSession
  \/ StartInterview
  \/ SubmitAnswer
  \/ SubmitMCQAnswer
  \/ SubmitMCQJustification
  \/ SubmitCode
  \/ TriggerCodingInterruption
  \/ SubmitInterruptionResponse
  \/ SkipQuestion

Spec == Init /\ [][Next]_vars

-----------------------------------------------------------------------------
(* Shape of the state *)

TypeOK ==
  /\ DOMAIN sessions \subseteq IdSpace
  /\ \A id \in DOMAIN sessions :
       /\ sessions[id].id = id
       /\ sessions[id].state \in STATES
       /\ sessions[id].currentSlotIndex \in Nat
       /\ sessions[id].currentFollowUpDepth \in Nat
  /\ deviations \in 0..MaxDeviations

-----------------------------------------------------------------------------
(* Interleaved calls.  A handler is an async function: it runs until an    *)
(* await of the oracle, is suspended there, and resumes when the oracle    *)
(* answers; between the two, other calls run on the same registry.  The    *)
(* handlers are cut here at their awaits.  A suspended call keeps its      *)
(* locals: the cursor and follow-up index it read on entry (`currentSlot`  *)
(* and `fuIndex` are references into session.slots, which only grows), its *)
(* answer, and the number of oracle calls it has made.                     *)

Call(op, sessionId, by, pc, slotIndex, fuIndex, answer, calls) ==
  [ op |-> op, id |-> sessionId, by |-> by, pc |-> pc, slotIndex |-> slotIndex,
    fuIndex |-> fuIndex, answer |-> answer, calls |-> calls, since |-> now ]

\* The call reached an await and left the session as `session`.
Suspended(session, call) ==
  [ done |-> FALSE, call |-> call,
    out |-> Outcome([ sessions EXCEPT ![session.id] = session ], "none",
                    call.calls, 0, "payload") ]

\* The call returned or threw.
Finished(call, outcome) == [ done |-> TRUE, call |-> call, out |-> outcome ]

\* advanceToNextSlot and generate*Slot up to the await of the generator
advanceToNextSlot_begin(session, call) ==
  LET s1 == [ session EXCEPT !.currentFollowUpDepth = 0,
                             !.currentSlotIndex = @ + 1 ]
      slotIndex == s1.currentSlotIndex
      slotType == slotTypes[slotIndex + 1]
  IN IF slotIndex >= totalSlots THEN Finished(call, completeInterview(s1, call.calls))
     ELSE IF slotType = "mcq"
       THEN Suspended([ s1 EXCEPT !.state = "MCQ" ],
                      [ call EXCEPT !.pc = "generateMCQ" ])
     ELSE IF slotType = "coding"
       THEN Suspended([ s1 EXCEPT !.state = "CODING", !.codingInterrupted = FALSE ],
                      [ call EXCEPT !.pc = "generateCodingQuestion" ])
     ELSE Suspended([ s1 EXCEPT !.state = IF slotIndex = 0 THEN "WARMUP"
                                          ELSE "CORE_QUESTION" ],
                    [ call EXCEPT !.pc = "generateQuestion", !.slotIndex = slotIndex ])

startInterview_begin_noStateCheck(sessionId, by) ==
  LET call == Call("start", sessionId, by, "generateQuestion", 0, 0, None, 0)
  IN IF sessionId \notin DOMAIN sessions
       THEN Finished(call, Rejected("Session not found", 0))
     ELSE Suspended([ sessions[sessionId] EXCEPT !.state = "WARMUP",
                                                 !.currentSlotIndex = 0 ], call)

\* startInterview up to `await ai.generateQuestion`
startInterview_begin(sessionId, by) ==
  LET call == Call("start", sessionId, by, "generateQuestion", 0, 0, None, 0)
  IN IF sessionId \notin DOMAIN sessions
       THEN Finished(call, Rejected("Session not found", 0))
     ELSE IF sessions[sessionId].state # "CREATED"
       THEN Finished(call, Rejected("Interview already started", 0))
     ELSE Suspended([ sessions[sessionId] EXCEPT !.state = "WARMUP",
                                                 !.currentSlotIndex = 0 ], call)

\* submitAnswer up to `await ai.evaluateAnswer`
submitAnswer_begin(sessionId, by, answer) ==
  LET call == Call("submitAnswer", sessionId, by, "evaluateAnswer", 0, 0,
                   Some(answer), 0)
  IN IF sessionId \notin DOMAIN sessions
       THEN Finished(call, Rejected("Session not found", 0))
     ELSE
       LET session == sessions[sessionId]
           slotIndex == session.currentSlotIndex
           slot == SlotAt(session, slotIndex)
           currentSlot == Val(slot)
           depth == session.currentFollowUpDepth
           followUps == Val(currentSlot.followUps)
           fuAnswered ==
             [ followUps EXCEPT ![depth] = [ @ EXCEPT !.answer = Some(answer),
                                                     !.answerTimestamp = Some(T) ] ]
           answered == [ currentSlot EXCEPT !.answer = Some(answer),
                                            !.answerTimestamp = Some(T) ]
           entered == [ call EXCEPT !.slotIndex = slotIndex, !.fuIndex = depth ]
       IN IF session.state = "COMPLETED"
            THEN Finished(call, Rejected("Interview already completed", 0))
          ELSE IF ~IsSome(slot) THEN Finished(call, Rejected("TypeError", 0))
          ELSE IF depth > 0
            THEN IF ~IsSome(currentSlot.followUps) \/ depth > Len(followUps)
                   THEN Finished(call, Rejected("TypeError", 0))
                   ELSE Suspended(
                          WithSlot(session, slotIndex,
                                   [ currentSlot EXCEPT !.followUps = Some(fuAnswered) ]),
                          entered)
          ELSE Suspended(WithSlot(session, slotIndex, answered), entered)

\* skipQuestion up to the await inside advanceToNextSlot
skipQuestion_begin(sessionId, by) ==
  LET call == Call("skip", sessionId, by, "advanceToNextSlot", 0, 0, None, 0)
  IN IF sessionId \notin DOMAIN sessions
       THEN Finished(call, Rejected("Session not found", 0))
     ELSE
       LET session == sessions[sessionId]
           lastIndex == Len(session.slots) - 1
           currentSlot == SlotAt(session, lastIndex)
           marked ==
             IF IsSome(currentSlot)
               THEN WithSlot(session, lastIndex,
                             [ Val(currentSlot) EXCEPT !.skipped = TRUE,
                                                       !.answer = Some(SkippedAnswer) ])
               ELSE session
       IN advanceToNextSlot_begin(marked, call)

\* triggerCodingInterruption up to `await ai.generateCodingInterruption`
triggerCodingInterruption_begin(sessionId, by) ==
  LET call == Call("triggerCodingInterruption", sessionId, by,
                   "generateCodingInterruption", 0, 0, None, 0)
  IN IF sessionId \notin DOMAIN sessions
       THEN Finished(call, Rejected("Session not found", 0))
     ELSE
       LET session == sessions[sessionId]
       IN IF session.codingInterrupted
            THEN Finished(call, Outcome(sessions, "none", 0, 0, "null"))
          ELSE IF ~IsSome(session.currentCoding)
            THEN Finished(call, Rejected("TypeError", 0))
          ELSE Suspended(session, [ call EXCEPT !.slotIndex = session.currentSlotIndex ])

\* submitAnswer from the return of ai.evaluateAnswer to its next await
submitAnswer_evaluated(call, reply) ==
  LET session == sessions[call.id]
      currentSlot == session.slots[call.slotIndex + 1]
      evaluation == evaluateAnswer(reply)
      followUps == Val(currentSlot.followUps)
      fuEvaluated ==
        [ followUps EXCEPT ![call.fuIndex] = [ @ EXCEPT !.evaluation = Some(evaluation) ] ]
      stored ==
        IF call.fuIndex > 0
          THEN WithSlot(session, call.slotIndex,
                        [ currentSlot EXCEPT !.followUps = Some(fuEvaluated) ])
          ELSE [ WithSlot(session, call.slotIndex,
                          [ currentSlot EXCEPT !.evaluation = Some(evaluation) ])
                   EXCEPT !.coveredTopics = @ \o evaluation.concept_coverage ]
      slotNow == stored.slots[call.slotIndex + 1]
      depthNow == stored.currentFollowUpDepth
      isIdkAnswer == detectDontKnow(Val(call.answer))
      lastQuality == getLastEvalQuality(slotNow, depthNow)
      shouldSkipFollowUps == isIdkAnswer \/ lastQuality <= 2
      counted == [ call EXCEPT !.calls = @ + 1 ]
  IN IF depthNow > 0 /\ ~IsSome(slotNow.followUps)
       THEN Finished(call, Thrown(stored, "TypeError", call.calls + 1))
     ELSE IF depthNow < maxFollowUps /\ ~shouldSkipFollowUps
       THEN Suspended([ stored EXCEPT !.currentFollowUpDepth = @ + 1,
                                      !.state = "FOLLOW_UP" ],
                      [ counted EXCEPT !.pc = "generateFollowUp" ])
     ELSE advanceToNextSlot_begin(stored, counted)

\* A suspended call from the oracle's answer to its next await or its end.
resume(call, reply) ==
  LET session == sessions[call.id]
      calls == call.calls + 1
      captured == SlotAt(session, call.slotIndex)
      mcq == generateMCQ(reply)
      withMCQ == PushTopic([ session EXCEPT !.currentMCQ = Some(CurrentMCQ(mcq)) ],
                           mcq.topic)
      coding == generateCodingQuestion(reply)
      withCoding == PushTopic([ session EXCEPT !.currentCoding = Some(coding) ],
                              coding.topic)
  IN IF reply.throws THEN Finished(call, Rejected("OracleError", calls))
     ELSE CASE call.pc = "evaluateAnswer" -> submitAnswer_evaluated(call, reply)
            [] call.pc = "generateFollowUp" ->
                 IF ~IsSome(Val(captured).followUps)
                   THEN Finished(call, Rejected("TypeError", calls))
                   ELSE Finished(call,
                          Returned(
                            WithSlot(session, call.slotIndex,
                              [ Val(captured) EXCEPT
                                  !.followUps =
                                    Some(Append(Val(@),
                                           FollowUp(session.currentFollowUpDepth, T))) ]),
                            calls, 0))
            [] call.pc = "generateQuestion" ->
                 Finished(call,
                   Returned(PushSlot(session, SpokenSlot(call.slotIndex, T)), calls, 0))
            [] call.pc = "generateMCQ" ->
                 Finished(call,
                   Returned(PushSlot(withMCQ, MCQSlot(withMCQ.currentSlotIndex, mcq, T)),
                            calls, 0))
            [] call.pc = "generateCodingQuestion" ->
                 Finished(call,
                   Returned(PushSlot(withCoding,
                                     CodingSlot(withCoding.currentSlotIndex, T)),
                            calls, 0))
            [] call.pc = "generateCodingInterruption" ->
                 IF ~IsSome(captured) THEN Finished(call, Rejected("TypeError", calls))
                 ELSE Finished(call,
                        Returned(
                          [ WithSlot(session, call.slotIndex,
                              [ Val(captured) EXCEPT
                                  !.interruptionQuestion = Some("why this approach") ])
                              EXCEPT !.state = "CODING_INTERRUPT" ],
                          calls, 0))

\* Who is waiting for an answer on the session.
Awaits(by, sessionId) ==
  \E i \in 1..Len(inflight) : inflight[i].id = sessionId /\ inflight[i].by = by

\* The caller of a call admitted now: the scripted client, which makes one
\* call at a time; the timer of its page, which asks for the interruption
\* while the candidate types; or someone else.
Caller(op, sessionId) ==
  IF sessionId # ClientSession \/ sessionId \notin DOMAIN sessions THEN "other"
  ELSE IF TimerFires(op, sessions[sessionId])
    THEN IF Awaits("timer", sessionId) THEN "other" ELSE "timer"
  ELSE IF Scripted(op, sessionId) /\ ~Awaits("client", sessionId) THEN "client"
  ELSE "other"

\* Calls by anyone but the client and its timer, and failing oracle
\* replies, are deviations.
CallerCost(by) == IF by = "other" THEN 1 ELSE 0

\* An interleaved run is followed until its deviations are spent and every
\* call has returned.
Running == deviations < MaxDeviations \/ inflight # << >>

\* No suspended call other than inflight[at] has waited its limit.
Patient(at) ==
  \A i \in 1..Len(inflight) : i # at => now - inflight[i].since < MaxWait

RemoveAt(s, i) == SubSeq(s, 1, i - 1) \o SubSeq(s, i + 1, Len(s))

\* Whether the client's session has been driven as its states ask: a call is
\* judged against the state it is admitted in, and a suspended call against
\* the oracle reply it ends with.
CompliantStep(r, at) ==
  IF at = 0
    THEN Compliant(r.call.op, r.call.id, IF r.done THEN r.out.err ELSE "none")
    ELSE /\ last.compliant
         /\ (r.done /\ r.call.id = ClientSession) => r.out.err # "OracleError"

\* One step of an interleaved run: a call is admitted and runs to its first
\* await or to its end (at = 0), or the suspended call inflight[at] resumes
\* and runs to its next await or to its end.
Step(r, cost, at) ==
  /\ Running
  /\ Patient(at)
  /\ deviations + cost <= MaxDeviations
  /\ deviations' = deviations + cost
  /\ sessions' = r.out.sessions
  /\ now' = IF r.out.sessions # sessions THEN T ELSE now
  /\ scoreCalls' =
       [ i \in DOMAIN r.out.sessions |->
           (IF i \in DOMAIN scoreCalls THEN scoreCalls[i] ELSE 0)
             + (IF i = r.call.id THEN r.out.scored ELSE 0) ]
  /\ IF r.done
       THEN /\ inflight' = IF at = 0 THEN inflight ELSE RemoveAt(inflight, at)
            /\ last' = [ op |-> r.call.op, id |-> r.call.id, err |-> r.out.err,
                         calls |-> r.out.calls, ret |-> r.out.ret,
                         pre |-> PreState(r.call.id), answer |-> r.call.answer,
                         evalThrew |-> FALSE, evalUnparsable |-> FALSE,
                         submissions |-> Submitted(r.call.op, r.call.id),
                         compliant |-> CompliantStep(r, at) ]
       ELSE /\ inflight' = IF at = 0 THEN Append(inflight, r.call)
                         ELSE [ inflight EXCEPT ![at] = r.call ]
            /\ last' = [ last EXCEPT !.compliant = CompliantStep(r, at) ]

BeginStart ==
  \E id \in IdSpace :
    LET by == Caller("start", id)
    IN Step(startInterview_begin(id, by), CallerCost(by), 0)

BeginSubmitAnswer ==
  \E id \in IdSpace :
    LET by == Caller("submitAnswer", id)
    IN Step(submitAnswer_begin(id, by, NormalAnswer), CallerCost(by), 0)

BeginSkip ==
  \E id \in IdSpace :
    LET by == Caller("skip", id)
    IN Step(skipQuestion_begin(id, by), CallerCost(by), 0)

BeginTriggerCodingInterruption ==
  \E id \in IdSpace :
    LET by == Caller("triggerCodingInterruption", id)
    IN Step(triggerCodingInterruption_begin(id, by), CallerCost(by), 0)

Resume ==
  \E i \in 1..Len(inflight), reply \in { NominalReply, ThrowingReply } :
    Step(resume(inflight[i], reply), IF reply.throws THEN 1 ELSE 0, i)

\* The client's calls whose interleavings are not followed: each runs from
\* admission to return in one step, while the client awaits no other call.
ClientCall ==
  /\ Running
  /\ Patient(0)
  /\ ~Awaits("client", ClientSession)
  /\ deviations' = deviations
  /\ \/ CreateSession
     \/ SubmitMCQAnswer
     \/ SubmitMCQJustification
     \/ SubmitCode
     \/ SubmitInterruptionResponse

AsyncNext ==
  \/ ClientCall
  \/ BeginStart
  \/ BeginSubmitAnswer
  \/ BeginSkip
  \/ BeginTriggerCodingInterruption
  \/ Resume

AsyncSpec == Init /\ [][AsyncNext]_vars

-----------------------------------------------------------------------------
(* Direct calls of scoring.computeScore (module.exports of scoring.js):    *)
(* the caller hands it a session object whose slots carry the keys         *)
(* scoring.js reads.  The run grows one session slot by slot and scores it *)
(* after every addition.  Every dimension is a sum or a count over the     *)
(* slots of one type, so the slots are added type by type (spoken, mcq,    *)
(* coding, then the paste signals) and, within a type, in the order of the *)
(* input lists below.                                                      *)

\* Largest numbers of slots, of slots of each type and of paste signals in
\* a scored session.
MaxScoredSlots == 4

MaxSpokenInputs == 2

MaxMCQInputs == 2

MaxCodingInputs == 3

MaxPasteSignals == 3

\* An evaluation object with the key scoring.js reads.
ScoredEvaluation(q) == [ Evaluation(None, << >>) EXCEPT !.quality = Some(q) ]

\* A follow-up that was answered and evaluated with quality q.
ScoredFollowUp(q) ==
  [ FollowUp(1, 0) EXCEPT !.answer = Some(NormalAnswer),
                          !.evaluation = Some(ScoredEvaluation(q)) ]

\* A spoken slot with main quality `main` (None: not evaluated) and the
\* given follow-ups, answered after more than FastAnswerMs.
SpokenInput(main, followUps, skipped) ==
  [ SpokenSlot(0, 0) EXCEPT
      !.answer = Some(NormalAnswer),
      !.evaluation = IF IsSome(main) THEN Some(ScoredEvaluation(Val(main))) ELSE None,
      !.followUps = Some(followUps),
      !.skipped = skipped,
      !.responseTimeMs = Some(6000) ]

SpokenInputs ==
  << SpokenInput(Some(8), << >>, FALSE),
     SpokenInput(Some(9), << ScoredFollowUp(1) >>, FALSE),
     SpokenInput(Some(9), << ScoredFollowUp(5), ScoredFollowUp(7) >>, FALSE),
     SpokenInput(Some(9), << ScoredFollowUp(9), ScoredFollowUp(10) >>, FALSE),
     SpokenInput(Some(1), << ScoredFollowUp(1) >>, FALSE),
     SpokenInput(None, << ScoredFollowUp(8) >>, FALSE),
     SpokenInput(Some(10), << FollowUp(1, 0) >>, FALSE),
     SpokenInput(Some(10), << >>, TRUE) >>

\* An mcq slot answered correctly or not, with a justification evaluated
\* with quality `quality` (None: no justification evaluation).
MCQInput(isCorrect, quality, skipped) ==
  [ MCQSlot(0, MCQFallback, 0) EXCEPT
      !.skipped = skipped,
      !.selectedOption = Some(OptionA),
      !.isCorrect = Some(isCorrect),
      !.justification = Some(NormalJustification),
      !.justificationEval =
        IF IsSome(quality) THEN Some(ScoredEvaluation(Val(quality))) ELSE None ]

MCQInputs ==
  << MCQInput(TRUE, Some(9), FALSE),
     MCQInput(TRUE, None, FALSE),
     MCQInput(FALSE, None, FALSE),
     MCQInput(FALSE, Some(10), FALSE),
     MCQInput(TRUE, Some(10), FALSE),
     MCQInput(TRUE, Some(10), TRUE) >>

\* A coding slot with its evaluation (None: not evaluated) and the times
\* its editor recorded.
CodingInput(codeEvaluation, timeToFirstKeystroke, totalTimeMs) ==
  [ CodingSlot(0, 0) EXCEPT
      !.code = Some("code"),
      !.codeEvaluation = codeEvaluation,
      !.behaviorData =
        Some([ pasteEvents |-> Some(0),
               timeToFirstKeystroke |-> Some(timeToFirstKeystroke),
               totalTimeMs |-> Some(totalTimeMs) ]) ]

CodeEvaluation(codeQuality, logic) ==
  Some([ codeQuality |-> Some(codeQuality), logic |-> Some(logic) ])

CodingInputs ==
  << CodingInput(CodeEvaluation(9, 9), 5000, 60000),
     CodingInput(CodeEvaluation(1, 1), 500, 5000),
     CodingInput(CodeEvaluation(10, 10), 0, 5000),
     CodingInput(None, 500, 60000),
     CodingInput(CodeEvaluation(9, 9), 5000, 5000) >>

\* The place of slot in the input list it was taken from.
InputIndex(inputs, slot) ==
  CHOOSE i \in 1..Len(inputs) : inputs[i] = [ slot EXCEPT !.index = 0 ]

\* The session with the result of computeScore stored on it.
Scored_marksSkipped(session) ==
  [ session EXCEPT
      !.slots = [ i \in 1..Len(session.slots) |->
                    [ session.slots[i] EXCEPT !.skipped = TRUE ] ],
      !.score = Some(computeScore(session)) ]

Scored(session) == [ session EXCEPT !.score = Some(computeScore(session)) ]

\* The caller's session is scored.
ScoreStep(session) ==
  /\ sessions' = << Scored(session) >>
  /\ last' = [ op |-> "computeScore", id |-> 1, err |-> "none", calls |-> 0,
               ret |-> "payload", pre |-> PreState(1), answer |-> None,
               evalThrew |-> FALSE, evalUnparsable |-> FALSE, submissions |-> 0, compliant |-> TRUE ]
  /\ scoreCalls' = << 1 >>
  /\ UNCHANGED <<now, deviations, inflight>>

\* The slots of the given type may still be extended with inputs[i].
MayAdd(type, later, inputs, i, limit) ==
  /\ sessions # << >>
  /\ LET session == sessions[1]
         same == SelectSeq(session.slots, LAMBDA s : s.type = type)
     IN /\ Len(session.slots) < MaxScoredSlots
        /\ Len(same) < limit
        /\ ~IsSome(session.behaviorSignals)
        /\ \A k \in 1..Len(session.slots) : session.slots[k].type \notin later
        /\ same # << >> => InputIndex(inputs, same[Len(same)]) <= i

AddInput(slot) ==
  LET session == sessions[1]
  IN ScoreStep(PushSlot(session, [ slot EXCEPT !.index = Len(session.slots) ]))

ScoreEmpty ==
  /\ sessions = << >>
  /\ ScoreStep(NewSession(1, 0))

AddSpoken ==
  \E i \in 1..Len(SpokenInputs) :
    /\ MayAdd("spoken", { "mcq", "coding" }, SpokenInputs, i, MaxSpokenInputs)
    /\ AddInput(SpokenInputs[i])

AddMCQ ==
  \E i \in 1..Len(MCQInputs) :
    /\ MayAdd("mcq", { "coding" }, MCQInputs, i, MaxMCQInputs)
    /\ AddInput(MCQInputs[i])

AddCoding ==
  \E i \in 1..Len(CodingInputs) :
    /\ MayAdd("coding", { }, CodingInputs, i, MaxCodingInputs)
    /\ AddInput(CodingInputs[i])

AddPasteSignal ==
  /\ sessions # << >>
  /\ Len(SignalsOf(sessions[1])) < MaxPasteSignals
  /\ ScoreStep([ sessions[1] EXCEPT
                   !.behaviorSignals =
                     Some(Append(SignalsOf(sessions[1]), [ type |-> "paste" ])) ])

ScoreNext ==
  \/ ScoreEmpty
  \/ AddSpoken
  \/ AddMCQ
  \/ AddCoding
  \/ AddPasteSignal

ScoreSpec == Init /\ [][ScoreNext]_vars

-----------------------------------------------------------------------------
(* Properties.  A step of Next is one call: `last'` names the operation,   *)
(* the id it was given and how it ended; sessions is the registry before   *)
(* the call and sessions' the registry after it.                           *)

\* The operations that drive the state machine.
MutatingOps ==
  { "start", "submitAnswer", "submitMCQAnswer", "submitMCQJustification",
    "submitCode", "triggerCodingInterruption", "submitInterruptionResponse",
    "skip" }

\* slot.followUps.length, 0 for a slot that has no followUps array
FollowUpCount(slot) ==
  IF IsSome(slot.followUps) THEN Len(Val(slot.followUps)) ELSE 0

\* C1: every mutating operation invoked on a session whose state is
\* COMPLETED fails with an error and leaves every field of the stored
\* session unchanged.
C1_CompletedIsAbsorbing ==
  [][ \A id \in DOMAIN sessions :
        (sessions[id].state = "COMPLETED" /\ last'.id = id /\ last'.op \in MutatingOps)
          => (last'.err # "none" /\ sessions'[id] = sessions[id]) ]_vars

\* C2: the completion step executes at most once per session: once endTime
\* is non-null it never changes, and computeScore is never invoked a second
\* time for the session.
C2_CompletesAtMostOnce ==
  [][ \A id \in DOMAIN sessions :
        /\ IsSome(sessions[id].endTime) => sessions'[id].endTime = sessions[id].endTime
        /\ scoreCalls'[id] <= 1 ]_vars

\* C3: in every reachable state of every session, state = COMPLETED if and
\* only if endTime is non-null.
C3_CompletedIffEndTime ==
  \A id \in DOMAIN sessions :
    (sessions[id].state = "COMPLETED") <=> IsSome(sessions[id].endTime)

\* C3 witness: an interview that ran to completion and was stamped.
C3_Witness ==
  \E id \in DOMAIN sessions :
    /\ sessions[id].state = "COMPLETED"
    /\ IsSome(sessions[id].endTime)
    /\ Len(sessions[id].slots) = totalSlots

\* C4: in every reachable state of a session that is not COMPLETED,
\* slots.length = currentSlotIndex + 1.  Stated here for the sessions that
\* have left CREATED, where no slot has been generated yet.
C4_OneSlotPerCursorPosition ==
  \A id \in DOMAIN sessions :
    sessions[id].state \notin { "CREATED", "COMPLETED" }
      => Len(sessions[id].slots) = sessions[id].currentSlotIndex + 1

\* C5: currentSlotIndex never decreases, and an operation that advances it
\* increases it by exactly 1.
C5_CursorAdvancesByOne ==
  [][ \A id \in DOMAIN sessions :
        \/ sessions'[id].currentSlotIndex = sessions[id].currentSlotIndex
        \/ sessions'[id].currentSlotIndex = sessions[id].currentSlotIndex + 1 ]_vars

\* C5 witness: submitCode moved the cursor off the coding slot (position 8)
\* onto the last slot.
C5_Witness ==
  /\ last.op = "submitCode"
  /\ last.err = "none"
  /\ last.id \in DOMAIN sessions
  /\ sessions[last.id].currentSlotIndex = totalSlots - 1
  /\ Len(sessions[last.id].slots) = totalSlots

\* C6: after every call, 0 <= currentFollowUpDepth <= maxFollowUps in every
\* session, and currentFollowUpDepth = 0 in a session whose cursor the call
\* advanced.
C6_DepthBoundedAndReset ==
  [][ \A id \in DOMAIN sessions' :
        /\ sessions'[id].currentFollowUpDepth \in 0..maxFollowUps
        /\ (id \in DOMAIN sessions
              /\ sessions'[id].currentSlotIndex # sessions[id].currentSlotIndex)
             => sessions'[id].currentFollowUpDepth = 0 ]_vars

\* C6 witness: an answer given at depth maxFollowUps advanced the cursor,
\* leaving behind a slot with maxFollowUps follow-ups.
C6_Witness ==
  /\ last.op = "submitAnswer"
  /\ last.pre = "FOLLOW_UP"
  /\ last.id \in DOMAIN sessions
  /\ LET session == sessions[last.id]
     IN /\ session.currentFollowUpDepth = 0
        /\ session.currentSlotIndex >= 1
        /\ Len(session.slots) = session.currentSlotIndex + 1
        /\ FollowUpCount(session.slots[session.currentSlotIndex]) = maxFollowUps

\* The answer is a don't-know answer of the kind C7 names: one that
\* normalizes to "i dont know".
NormalizesToIDontKnow(answer) ==
  normalizeAnswer(answer) = << "i", " ", "d", "o", "n", "t", " ", "k", "n", "o", "w" >>

\* The call was a submitAnswer whose evaluation the oracle returned.
AnswerEvaluated(call) ==
  /\ call.op = "submitAnswer"
  /\ call.calls >= 1
  /\ ~call.evalThrew

\* C7: a submitAnswer whose answer normalizes to "i dont know" and whose
\* evaluation the oracle returned, at whatever depth and with whatever
\* quality, appends no FollowUp record, does not leave the state FOLLOW_UP,
\* advances the cursor by one and resets the depth to 0.
C7_DontKnowSuppressesFollowUps ==
  [][ (AnswerEvaluated(last') /\ NormalizesToIDontKnow(Val(last'.answer)))
        => LET before == sessions[last'.id]
               after == sessions'[last'.id]
           IN /\ after.currentSlotIndex = before.currentSlotIndex + 1
              /\ after.currentFollowUpDepth = 0
              /\ after.state # "FOLLOW_UP"
              /\ \A i \in 1..Len(before.slots) :
                   FollowUpCount(after.slots[i]) = FollowUpCount(before.slots[i])
              /\ \A i \in (Len(before.slots) + 1)..Len(after.slots) :
                   FollowUpCount(after.slots[i]) = 0 ]_vars

\* C7 witness: "I don't know." given to the first follow-up and evaluated
\* with quality 7, which would draw a second follow-up from any other
\* answer; the cursor moved on.
C7_Witness ==
  /\ AnswerEvaluated(last)
  /\ last.answer = Some(IdkAnswer)
  /\ last.pre = "FOLLOW_UP"
  /\ LET session == sessions[last.id]
         left == session.slots[session.currentSlotIndex]
     IN /\ session.currentFollowUpDepth = 0
        /\ session.currentSlotIndex >= 1
        /\ FollowUpCount(left) = 1
        /\ Val(left.followUps)[1].answer = Some(IdkAnswer)
        /\ Val(left.followUps)[1].evaluation = Some(NominalReply.eval)

\* C8: start succeeds only in state CREATED, and then leaves the state
\* WARMUP, one slot (a spoken one) and the cursor at 0; in any other state
\* it fails and leaves the session unchanged.
C8_StartOnlyFromCreated ==
  [][ (last'.op = "start" /\ last'.id \in DOMAIN sessions)
        => LET before == sessions[last'.id]
               after == sessions'[last'.id]
           IN /\ last'.err = "none"
                   => /\ before.state = "CREATED"
                      /\ after.state = "WARMUP"
                      /\ Len(after.slots) = Len(before.slots) + 1
                      /\ Len(after.slots) = 1
                      /\ after.slots[1].type = "spoken"
                      /\ after.currentSlotIndex = 0
              /\ before.state # "CREATED"
                   => (last'.err # "none" /\ after = before) ]_vars

\* C8 witness: a start that succeeded.
C8_Witness ==
  /\ last.op = "start"
  /\ last.err = "none"
  /\ last.pre = "CREATED"
  /\ sessions[last.id].state = "WARMUP"
  /\ Len(sessions[last.id].slots) = 1

\* C9: a state-machine operation given an id that is not a key of the
\* registry fails with the not-found error before any oracle call and
\* leaves the registry unchanged; getSession returns null for such an id.
C9_UnknownIdIsRejected ==
  [][ last'.id \notin DOMAIN sessions
        => /\ last'.op \in MutatingOps
                => /\ last'.err = "Session not found"
                   /\ last'.calls = 0
                   /\ sessions' = sessions
           /\ last'.op = "getSession"
                => (last'.ret = "null" /\ sessions' = sessions) ]_vars

\* C9 witness: submitCode was refused for an id the non-empty registry
\* does not hold.
C9_Witness ==
  /\ last.op = "submitCode"
  /\ last.err = "Session not found"
  /\ last.id \notin DOMAIN sessions
  /\ DOMAIN sessions # {}

\* C10: submitMCQAnswer succeeds only in state MCQ, and then leaves the
\* state MCQ_JUSTIFY and the cursor, the depth and the number of slots as
\* they were; in any other state it fails and leaves the session unchanged.
C10_MCQAnswerOnlyInMCQ ==
  [][ (last'.op = "submitMCQAnswer" /\ last'.id \in DOMAIN sessions)
        => LET before == sessions[last'.id]
               after == sessions'[last'.id]
           IN /\ last'.err = "none"
                   => /\ before.state = "MCQ"
                      /\ after.state = "MCQ_JUSTIFY"
                      /\ after.currentSlotIndex = before.currentSlotIndex
                      /\ after.currentFollowUpDepth = before.currentFollowUpDepth
                      /\ Len(after.slots) = Len(before.slots)
              /\ before.state # "MCQ"
                   => (last'.err # "none" /\ after = before) ]_vars

\* C10 witness: a submitMCQAnswer that succeeded on the second MCQ slot.
C10_Witness ==
  /\ last.op = "submitMCQAnswer"
  /\ last.err = "none"
  /\ last.pre = "MCQ"
  /\ sessions[last.id].state = "MCQ_JUSTIFY"
  /\ sessions[last.id].currentSlotIndex = 6

\* C11: after a successful submitMCQAnswer(selectedOption, selectionTimeMs)
\* the slot record slots[currentSlotIndex] holds that selectedOption and
\* selectionTimeMs, and its isCorrect says whether the first character of
\* selectedOption is the slot's correct key.  Stated here for the calls
\* that find an mcq slot at the cursor.
C11_SelectionStoredOnSlot ==
  [][ (/\ last'.op = "submitMCQAnswer"
       /\ last'.err = "none"
       /\ IsSome(SlotAt(sessions'[last'.id], sessions'[last'.id].currentSlotIndex))
       /\ Val(SlotAt(sessions'[last'.id], sessions'[last'.id].currentSlotIndex)).type
            = "mcq")
        => LET after == sessions'[last'.id]
               slot == after.slots[after.currentSlotIndex + 1]
               selectedOption == Val(last'.answer)
           IN /\ slot.selectedOption = Some(selectedOption)
              /\ slot.selectionTimeMs = Some(5000)
              /\ slot.isCorrect = Some(charAt0(selectedOption) = Val(slot.correct)) ]_vars

\* C12: submitMCQJustification succeeds only in state MCQ_JUSTIFY, and then
\* the mcq slot at the cursor position of before the call holds the
\* justification and its evaluation and the cursor has advanced by one; in
\* any other state it fails and leaves the session unchanged.
C12_JustificationOnlyInJustify ==
  [][ (last'.op = "submitMCQJustification" /\ last'.id \in DOMAIN sessions)
        => LET before == sessions[last'.id]
               after == sessions'[last'.id]
               slot == after.slots[before.currentSlotIndex + 1]
           IN /\ last'.err = "none"
                   => /\ before.state = "MCQ_JUSTIFY"
                      /\ slot.type = "mcq"
                      /\ slot.mcqJustification = Some(NormalJustification)
                      /\ \E reply \in EvalReplies :
                           slot.mcqJustificationEval = Some(evaluateAnswer(reply))
                      /\ after.currentSlotIndex = before.currentSlotIndex + 1
              /\ before.state # "MCQ_JUSTIFY"
                   => (last'.err # "none" /\ after = before) ]_vars

\* C12 witness: the justification of the first MCQ (position 3) was stored
\* and the cursor moved to position 4.
C12_Witness ==
  /\ last.op = "submitMCQJustification"
  /\ last.err = "none"
  /\ last.pre = "MCQ_JUSTIFY"
  /\ sessions[last.id].currentSlotIndex = 4
  /\ sessions[last.id].slots[4].mcqJustification = Some(NormalJustification)

\* C13: once a triggerCodingInterruption call has generated the
\* interruption question of a coding slot, every later trigger for that
\* slot is a no-op: it asks the oracle nothing, returns null and leaves the
\* session unchanged.
C13_InterruptedAtMostOnce ==
  [][ (/\ last'.op = "triggerCodingInterruption"
       /\ last'.id \in DOMAIN sessions
       /\ IsSome(SlotAt(sessions[last'.id], sessions[last'.id].currentSlotIndex))
       /\ LET slot == Val(SlotAt(sessions[last'.id], sessions[last'.id].currentSlotIndex))
          IN slot.type = "coding" /\ IsSome(slot.interruptionQuestion))
        => /\ last'.ret = "null"
           /\ last'.calls = 0
           /\ sessions'[last'.id] = sessions[last'.id] ]_vars

\* slot.interruptionResponses || []
InterruptionResponses(slot) ==
  IF IsSome(slot.interruptionResponses) THEN Val(slot.interruptionResponses) ELSE << >>

\* C14: a submitInterruptionResponse that returns has appended exactly one
\* response to the slot at currentSlotIndex and set the state to CODING,
\* and has left currentSlotIndex, currentFollowUpDepth, the number of
\* slots, every other slot, coveredTopics and endTime as they were.
C14_InterruptionResponseFrame ==
  [][ (last'.op = "submitInterruptionResponse" /\ last'.err = "none")
        => LET before == sessions[last'.id]
               after == sessions'[last'.id]
               at == before.currentSlotIndex + 1
               was == InterruptionResponses(before.slots[at])
               is == InterruptionResponses(after.slots[at])
           IN /\ Len(is) = Len(was) + 1
              /\ SubSeq(is, 1, Len(was)) = was
              /\ is[Len(is)].answer = NormalAnswer
              /\ after.state = "CODING"
              /\ after.currentSlotIndex = before.currentSlotIndex
              /\ after.currentFollowUpDepth = before.currentFollowUpDepth
              /\ Len(after.slots) = Len(before.slots)
              /\ \A i \in 1..Len(before.slots) :
                   i # at => after.slots[i] = before.slots[i]
              /\ after.coveredTopics = before.coveredTopics
              /\ after.endTime = before.endTime ]_vars

\* C14 witness: the answer to the interruption of the coding slot was
\* recorded and the session is back in CODING.
C14_Witness ==
  /\ last.op = "submitInterruptionResponse"
  /\ last.err = "none"
  /\ last.pre = "CODING_INTERRUPT"
  /\ LET session == sessions[last.id]
     IN /\ session.state = "CODING"
        /\ session.slots[session.currentSlotIndex + 1].type = "coding"
        /\ Len(InterruptionResponses(session.slots[session.currentSlotIndex + 1])) = 1

\* C15: skip on a session that is not COMPLETED, in any state and at any
\* depth, sets skipped and the sentinel answer on slots[currentSlotIndex]
\* and on no other slot, resets the depth to 0 and advances the cursor by
\* one, completing the interview when that was the last slot.  Stated here
\* for the sessions that hold at least one slot.
C15_SkipMarksCurrentSlot ==
  [][ (/\ last'.op = "skip"
       /\ last'.id \in DOMAIN sessions
       /\ sessions[last'.id].state # "COMPLETED"
       /\ sessions[last'.id].slots # << >>)
        => LET before == sessions[last'.id]
               after == sessions'[last'.id]
               at == before.currentSlotIndex + 1
           IN /\ at <= Len(after.slots)
              /\ after.slots[at].skipped
              /\ after.slots[at].answer = Some(SkippedAnswer)
              /\ \A i \in 1..Len(after.slots) :
                   i # at =>
                     IF i <= Len(before.slots)
                       THEN /\ after.slots[i].skipped = before.slots[i].skipped
                            /\ after.slots[i].answer = before.slots[i].answer
                       ELSE ~after.slots[i].skipped
              /\ after.currentFollowUpDepth = 0
              /\ after.currentSlotIndex = before.currentSlotIndex + 1
              /\ before.currentSlotIndex = totalSlots - 1
                   => after.state = "COMPLETED" ]_vars

\* C16: in every session the slot at position i carries index i and the
\* type the plan configures for position i.
C16_SlotsFollowThePlan ==
  \A id \in DOMAIN sessions :
    \A i \in 1..Len(sessions[id].slots) :
      /\ sessions[id].slots[i].index = i - 1
      /\ i <= Len(slotTypes)
      /\ sessions[id].slots[i].type = slotTypes[i]

\* C17: a call during which the oracle fails does not fail itself: start,
\* the submit operations and skip never end with the oracle's error, and a
\* session they leave before COMPLETED holds the slot at its cursor.
C17_OracleFailureNeverStalls ==
  [][ (/\ last'.op \in { "start", "submitAnswer", "submitMCQAnswer",
                         "submitMCQJustification", "submitCode", "skip" }
       /\ last'.id \in DOMAIN sessions)
        => /\ last'.err # "OracleError"
           /\ (last'.err = "none" /\ sessions'[last'.id].state # "COMPLETED")
                => IsSome(SlotAt(sessions'[last'.id],
                                 sessions'[last'.id].currentSlotIndex)) ]_vars

\* The record the evaluation of the answer just given was stored on: the
\* slot at the cursor the call found, or its follow-up at the depth found.
AnsweredRecord(before, after) ==
  LET slot == after.slots[before.currentSlotIndex + 1]
  IN IF before.currentFollowUpDepth > 0
       THEN Val(slot.followUps)[before.currentFollowUpDepth]
       ELSE slot

\* C18: a submitAnswer on a spoken slot whose evaluation reply cannot be
\* parsed stores the neutral default (quality 5, confidence 0.5, clarity
\* medium, marker feedback) on the slot or follow-up answered, and decides
\* as for quality 5: a follow-up is drawn exactly when the depth is below
\* the limit and the answer is not a don't-know answer, else the cursor
\* advances.
C18_UnparsableEvaluationIsNeutral ==
  [][ (/\ AnswerEvaluated(last')
       /\ last'.evalUnparsable
       /\ sessions[last'.id].slots[sessions[last'.id].currentSlotIndex + 1].type
            = "spoken")
        => LET before == sessions[last'.id]
               after == sessions'[last'.id]
               stored == AnsweredRecord(before, after).evaluation
           IN /\ IsSome(stored)
              /\ Val(stored).answer_quality = Some(5)
              /\ Val(stored).confidence = 50
              /\ Val(stored).clarity = "medium"
              /\ Val(stored).brief_feedback = "Could not parse AI evaluation."
              /\ IF /\ before.currentFollowUpDepth < maxFollowUps
                    /\ ~detectDontKnow(Val(last'.answer))
                   THEN /\ after.state = "FOLLOW_UP"
                        /\ after.currentFollowUpDepth = before.currentFollowUpDepth + 1
                        /\ after.currentSlotIndex = before.currentSlotIndex
                   ELSE /\ after.currentFollowUpDepth = 0
                        /\ after.currentSlotIndex = before.currentSlotIndex + 1 ]_vars

\* C18 witness: an ordinary first answer whose evaluation text could not be
\* parsed; the default is on the slot and the first follow-up was drawn.
C18_Witness ==
  /\ AnswerEvaluated(last)
  /\ last.evalUnparsable
  /\ last.err = "none"
  /\ last.answer = Some(NormalAnswer)
  /\ last.pre = "WARMUP"
  /\ LET session == sessions[last.id]
         slot == session.slots[session.currentSlotIndex + 1]
     IN /\ session.state = "FOLLOW_UP"
        /\ session.currentFollowUpDepth = 1
        /\ slot.evaluation = Some(EvaluationFallback)
        /\ FollowUpCount(slot) = 1

\* A call on the session is admitted in this step: it is suspended at its
\* first await, or it began and ended within the step.
Admits(sessionId) ==
  \/ /\ Len(inflight') = Len(inflight) + 1
     /\ inflight'[Len(inflight')].id = sessionId
  \/ /\ inflight' = inflight
     /\ last' # last
     /\ last'.id = sessionId
     /\ last'.op # "createSession"

\* C19: while a call on a session is suspended awaiting the oracle, no
\* other call on the same session is admitted.
C19_OneCallPerSession ==
  [][ \A id \in IdSpace :
        Admits(id) => ~\E i \in 1..Len(inflight) : inflight[i].id = id ]_vars

Dimensions(session) ==
  LET spokenSlots == SelectSeq(session.slots, IsScoredSpoken)
      mcqSlots == SelectSeq(session.slots, IsScoredMCQ)
      codingSlots == SelectSeq(session.slots, IsScoredCoding)
  IN [ answerQuality |-> computeAnswerQuality(spokenSlots),
       depthStability |-> computeDepthStability(spokenSlots),
       mcqAccuracy |-> computeMCQAccuracy(mcqSlots),
       codingScore |-> computeCodingScore(codingSlots),
       behavioralTrust |-> computeBehavioralTrust(session),
       consistency |-> computeConsistency(spokenSlots, mcqSlots) ]

DimensionNames == DOMAIN WEIGHTS

\* C21: for a scored session whose inputs are in their ranges, each of the
\* six dimensions lies in [0, 100], the weights add up to 1, and overall is
\* the weighted sum of the dimensions rounded to the nearest integer, in
\* 0..100.
C21_OverallIsWeightedSum ==
  \A id \in DOMAIN sessions :
    IsSome(sessions[id].score) =>
      LET d == Dimensions(sessions[id])
          score == Val(sessions[id].score)
          hundredfold ==
            FAdd(FMul(FInt(30), d.answerQuality),
              FAdd(FMul(FInt(20), d.depthStability),
                FAdd(FMul(FInt(15), d.mcqAccuracy),
                  FAdd(FMul(FInt(15), d.codingScore),
                    FAdd(FMul(FInt(10), d.behavioralTrust),
                         FMul(FInt(10), d.consistency))))))
      IN /\ \A n \in DimensionNames :
              /\ FLeq(FInt(0), d[n]) /\ FLeq(d[n], FInt(100))
              /\ score.breakdown[n] \in 0..100
         /\ WEIGHTS.answerQuality + WEIGHTS.depthStability + WEIGHTS.mcqAccuracy
              + WEIGHTS.codingScore + WEIGHTS.behavioralTrust + WEIGHTS.consistency
              = 100
         /\ score.overall = MathRound(FMul(hundredfold, Frac(1, 100)))
         /\ score.overall \in 0..100

\* C21 witness: three coding slots typed at once and finished in seconds
\* take 105 points off the trust, which is scored 0, and overall is 26.
C21_Witness ==
  /\ last.op = "computeScore"
  /\ LET session == sessions[1]
         codingSlots == SelectSeq(session.slots, IsScoredCoding)
     IN /\ Len(session.slots) = 3
        /\ Len(SelectSeq(codingSlots, IsInstantCoding)) = 3
        /\ Len(SelectSeq(codingSlots, IsFastCoding)) = 3
        /\ Val(session.score).breakdown.behavioralTrust = 0
        /\ Val(session.score).overall = 26

\* C22: a scored session with no MCQ slot other than skipped ones has an MCQ
\* accuracy of exactly 50 and a consistency of exactly 70, whatever its
\* spoken and coding slots hold.
C22_NoMCQIsNeutral ==
  \A id \in DOMAIN sessions :
    LET session == sessions[id]
    IN (/\ IsSome(session.score)
        /\ \A k \in 1..Len(session.slots) :
             ~(session.slots[k].type = "mcq" /\ ~session.slots[k].skipped))
         => /\ Val(session.score).breakdown.mcqAccuracy = 50
            /\ Val(session.score).breakdown.consistency = 70
            /\ Dimensions(session).mcqAccuracy = FInt(50)
            /\ Dimensions(session).consistency = FInt(70)

\* C22 witness: a session scored with answered spoken and coding slots and
\* one MCQ slot, which was skipped.
C22_Witness ==
  /\ last.op = "computeScore"
  /\ LET session == sessions[1]
     IN /\ \E k \in 1..Len(session.slots) : IsScoredSpoken(session.slots[k])
        /\ \E k \in 1..Len(session.slots) : IsScoredCoding(session.slots[k])
        /\ \E k \in 1..Len(session.slots) :
             session.slots[k].type = "mcq" /\ session.slots[k].skipped
        /\ \A k \in 1..Len(session.slots) :
             session.slots[k].type = "mcq" => session.slots[k].skipped
        /\ Val(session.score).breakdown.mcqAccuracy = 50
        /\ Val(session.score).breakdown.consistency = 70

C24_MCQAccuracy ==
  \A id \in DOMAIN sessions :
    LET mcq == SelectSeq(sessions[id].slots, IsScoredMCQ)
        correct(slot) == slot.isCorrect = Some(TRUE)
        of(slot) ==
          IF IsSome(slot.justificationEval)
            THEN (IF correct(slot) THEN 50 ELSE 0)
                   + 5 * Val(Val(slot.justificationEval).quality)
            ELSE IF correct(slot) THEN 50 + 25 ELSE 0
        expected == Mean([ i \in 1..Len(mcq) |-> of(mcq[i]) ])
    IN (IsSome(sessions[id].score) /\ mcq # << >>)
         => /\ Dimensions(sessions[id]).mcqAccuracy = expected
            /\ Val(sessions[id].score).breakdown.mcqAccuracy = MathRound(expected)

\* C24 witness: one MCQ answered correctly with no justification evaluation
\* (75) and one answered wrongly with a justification of quality 10 (50)
\* give 62.5, reported as 63.
C24_Witness ==
  /\ last.op = "computeScore"
  /\ LET mcq == SelectSeq(sessions[1].slots, IsScoredMCQ)
     IN /\ Len(mcq) = 2
        /\ mcq[1].isCorrect = Some(TRUE) /\ ~IsSome(mcq[1].justificationEval)
        /\ mcq[2].isCorrect = Some(FALSE) /\ HasJustificationQuality(mcq[2])
        /\ Dimensions(sessions[1]).mcqAccuracy = Frac(125, 2)
        /\ Val(sessions[1].score).breakdown.mcqAccuracy = 63

\* C25: every coding slot whose recorded time to the first keystroke t
\* satisfies 0 <= t < 3000 ms takes 20 points off the behavioural trust and
\* raises an instant_coding flag of severity danger; a total coding time
\* under 30000 ms takes a further 15 points off.
C25_InstantCodingPenalised ==
  \A id \in DOMAIN sessions :
    IsSome(sessions[id].score) =>
      LET session == sessions[id]
          score == Val(session.score)
          recorded(slot, key) ==
            IsSome(slot.behaviorData) /\ IsSome(Val(slot.behaviorData)[key])
          value(slot, key) == Val(Val(slot.behaviorData)[key])
          instant(slot) ==
            /\ IsScoredCoding(slot)
            /\ recorded(slot, "timeToFirstKeystroke")
            /\ value(slot, "timeToFirstKeystroke") \in 0..2999
          fast(slot) ==
            /\ IsScoredCoding(slot)
            /\ recorded(slot, "totalTimeMs")
            /\ value(slot, "totalTimeMs") < 30000
          pastes == Len(SelectSeq(SignalsOf(session), IsPasteSignal))
          fastAnswers == Len(SelectSeq(SelectSeq(session.slots, IsScoredSpoken), IsFastAnswer))
          deduction ==
            20 * Len(SelectSeq(session.slots, instant))
              + 15 * Len(SelectSeq(session.slots, fast))
              + Min(30, 15 * pastes)
              + (IF fastAnswers > 3 THEN 15 ELSE 0)
          flags == SelectSeq(score.riskFlags,
                             LAMBDA f : f.type = "instant_coding" /\ f.severity = "danger")
      IN /\ score.breakdown.behavioralTrust = Max(0, 100 - deduction)
         /\ Len(flags) = Len(SelectSeq(session.slots, instant))

\* The step in which session id is completed and scored.
Completes(id) ==
  /\ id \in DOMAIN sessions /\ id \in DOMAIN sessions'
  /\ ~IsSome(sessions[id].score)
  /\ IsSome(sessions'[id].score)

\* The deductions computeBehavioralTrust takes for the timing of the coding
\* slots of a session.
CodingTimingDeduction(session) ==
  LET codingSlots == SelectSeq(session.slots, IsScoredCoding)
  IN 20 * Len(SelectSeq(codingSlots, IsInstantCoding))
       + 15 * Len(SelectSeq(codingSlots, IsFastCoding))

\* C26: when the behaviour data stored by submitCode on the coding slots
\* of a session report n >= 1 paste events, the score computed at completion
\* has its behavioural trust reduced by min(30, 15 * n) and its risk flags
\* hold a paste_detected flag of severity danger.
C26_PasteEventsArePenalised ==
  [][ \A id \in DOMAIN sessions :
        Completes(id) =>
          LET session == sessions'[id]
              score == Val(session.score)
              codingSlots == SelectSeq(session.slots, IsScoredCoding)
              pastesOf(slot) ==
                IF IsSome(slot.behaviorData) /\ IsSome(Val(slot.behaviorData).pasteEvents)
                  THEN Val(Val(slot.behaviorData).pasteEvents)
                  ELSE 0
              n == SumSeq([ i \in 1..Len(codingSlots) |-> pastesOf(codingSlots[i]) ])
              fastAnswers ==
                Len(SelectSeq(SelectSeq(session.slots, IsScoredSpoken), IsFastAnswer))
              expected ==
                Max(0, 100 - Min(30, 15 * n) - CodingTimingDeduction(session)
                         - (IF fastAnswers > 3 THEN 15 ELSE 0))
          IN n >= 1 =>
               /\ score.breakdown.behavioralTrust = expected
               /\ \E k \in 1..Len(score.riskFlags) :
                    /\ score.riskFlags[k].type = "paste_detected"
                    /\ score.riskFlags[k].severity = "danger" ]_vars

\* C27: when more than 3 answered spoken slots of a session have a response
\* latency (answer timestamp minus creation timestamp) under 5000 ms, the
\* behavioural trust computed at completion is reduced by 15; with 3 or
\* fewer such slots it is not.
C27_FastAnswersArePenalised ==
  [][ \A id \in DOMAIN sessions :
        Completes(id) =>
          LET session == sessions'[id]
              score == Val(session.score)
              fast(slot) ==
                /\ IsScoredSpoken(slot)
                /\ IsSome(slot.answerTimestamp)
                /\ Val(slot.answerTimestamp) - slot.timestamp < 5000
              fastAnswers == Len(SelectSeq(session.slots, fast))
              pastes == Len(SelectSeq(SignalsOf(session), IsPasteSignal))
              expected ==
                Max(0, 100 - Min(30, 15 * pastes) - CodingTimingDeduction(session)
                         - (IF fastAnswers > 3 THEN 15 ELSE 0))
          IN score.breakdown.behavioralTrust = expected ]_vars

\* C28: the answer quality computed at completion is 10 times the mean of
\* the qualities the evaluation oracle returned for the main answers and
\* follow-up answers stored on the answered spoken slots (10 q when every
\* evaluation has quality q), and 0 only when there is no such quality.
C28_AnswerQualityIsTheMean ==
  [][ \A id \in DOMAIN sessions :
        Completes(id) =>
          LET session == sessions'[id]
              score == Val(session.score)
              spoken == SelectSeq(session.slots, IsScoredSpoken)
              returned(rec) ==
                IF IsSome(rec.evaluation) /\ IsSome(Val(rec.evaluation).answer_quality)
                  THEN << Val(Val(rec.evaluation).answer_quality) >>
                  ELSE << >>
              ofFollowUps(fus) == Flatten([ i \in 1..Len(fus) |-> returned(fus[i]) ])
              of(slot) ==
                returned(slot)
                  \o (IF IsSome(slot.followUps) THEN ofFollowUps(Val(slot.followUps))
                      ELSE << >>)
              qualities == Flatten([ i \in 1..Len(spoken) |-> of(spoken[i]) ])
          IN score.breakdown.answerQuality =
               IF qualities = << >> THEN 0
               ELSE MathRound(FMul(FInt(10), Mean(qualities))) ]_vars

LogicLevels == { "low", "medium", "high" }

\* C29: for a completed session each of whose coding slots was submitted and
\* evaluated with code quality c and a logic understanding that maps to the
\* number l, both in 1..10, the coding score is the mean of
\* ((c + l) / 2) * 10 over the coding slots; a session with no coding slot
\* has a coding score of 50.
C29_CodingScoreIsTheMean ==
  [][ \A id \in DOMAIN sessions :
        Completes(id) =>
          LET session == sessions'[id]
              score == Val(session.score)
              codingSlots == SelectSeq(session.slots, IsScoredCoding)
              evaluated(slot) ==
                /\ IsSome(slot.codingEval)
                /\ IsSome(Val(slot.codingEval).code_quality)
                /\ Val(Val(slot.codingEval).code_quality) \in 1..10
                /\ Val(slot.codingEval).logic_understanding \in LogicLevels
              of(slot, number) ==
                5 * (Val(Val(slot.codingEval).code_quality)
                       + number[Val(slot.codingEval).logic_understanding])
          IN /\ codingSlots = << >> => score.breakdown.codingScore = 50
             /\ (/\ codingSlots # << >>
                 /\ \A k \in 1..Len(codingSlots) : evaluated(codingSlots[k]))
                  => \E number \in [ LogicLevels -> 1..10 ] :
                       score.breakdown.codingScore =
                         MathRound(Mean([ k \in 1..Len(codingSlots) |->
                                            of(codingSlots[k], number) ])) ]_vars

\* The session of the worked example: one spoken slot of main quality 8
\* with no evaluated follow-up and a latency above 5000 ms, one MCQ answered
\* correctly with a justification of quality 9, one coding slot of code
\* quality 9 and logic 9 typed and finished slowly, and no paste signal.
IsStrongSession(session) ==
  /\ Len(session.slots) = 3
  /\ SignalsOf(session) = << >>
  /\ \E a \in 1..3, b \in 1..3, c \in 1..3 :
       LET spoken == session.slots[a]
           mcq == session.slots[b]
           coding == session.slots[c]
       IN /\ IsScoredSpoken(spoken)
          /\ HasQuality(spoken) /\ QualityOf(spoken) = 8
          /\ FollowUpScores(spoken) = << >>
          /\ IsSome(spoken.responseTimeMs) /\ Val(spoken.responseTimeMs) > 5000
          /\ IsScoredMCQ(mcq)
          /\ mcq.isCorrect = Some(TRUE)
          /\ HasJustificationQuality(mcq)
          /\ Val(Val(mcq.justificationEval).quality) = 9
          /\ IsScoredCoding(coding)
          /\ IsSome(coding.codeEvaluation)
          /\ Val(coding.codeEvaluation).codeQuality = Some(9)
          /\ Val(coding.codeEvaluation).logic = Some(9)
          /\ IsSome(coding.behaviorData)
          /\ Val(coding.behaviorData).pasteEvents = Some(0)
          /\ IsSome(Val(coding.behaviorData).timeToFirstKeystroke)
          /\ Val(Val(coding.behaviorData).timeToFirstKeystroke) >= 3000
          /\ IsSome(Val(coding.behaviorData).totalTimeMs)
          /\ Val(Val(coding.behaviorData).totalTimeMs) >= 30000

\* C30: the session of the worked example is scored with a behavioural
\* trust of 100 and an overall of at least 80, graded A or A+.
C30_StrongSessionIsGradedA ==
  \A id \in DOMAIN sessions :
    (IsSome(sessions[id].score) /\ IsStrongSession(sessions[id]))
      => LET score == Val(sessions[id].score)
         IN /\ score.breakdown.behavioralTrust = 100
            /\ score.overall >= 80
            /\ score.grade.letter \in { "A", "A+" }

\* C30 witness: the session of the worked example has been scored: 80, 60,
\* 95, 90, 100 and 100 weigh to 83.75, reported as 84, grade A.
C30_Witness ==
  /\ last.op = "computeScore"
  /\ IsStrongSession(sessions[1])
  /\ Val(sessions[1].score).breakdown =
       [ answerQuality |-> 80, depthStability |-> 60, mcqAccuracy |-> 95,
         codingScore |-> 90, behavioralTrust |-> 100, consistency |-> 100 ]
  /\ Val(sessions[1].score).overall = 84
  /\ Val(sessions[1].score).grade.letter = "A"

\* C31: for every integer overall score s in 0..100 the grade is A+ from
\* 90, A from 80, B+ from 70, B from 60, C+ from 50, C from 40, D from 30
\* and F below; the grade of a report is the grade of its own overall.
C31_GradeBands ==
  LET letterOf(s) ==
        CASE s \in 90..100 -> "A+"
          [] s \in 80..89 -> "A"
          [] s \in 70..79 -> "B+"
          [] s \in 60..69 -> "B"
          [] s \in 50..59 -> "C+"
          [] s \in 40..49 -> "C"
          [] s \in 30..39 -> "D"
          [] s \in 0..29 -> "F"
  IN /\ \A s \in 0..100 : getGrade(s).letter = letterOf(s)
     /\ \A id \in DOMAIN sessions :
          IsSome(sessions[id].score) =>
            LET score == Val(sessions[id].score)
            IN /\ score.overall \in 0..100
               /\ score.grade.letter = letterOf(score.overall)
               /\ score.grade = getGrade(score.overall)

\* C31 witness: a report sits on the lower edge of a band: overall 80,
\* graded A.
C31_Witness ==
  /\ last.op = "computeScore"
  /\ Val(sessions[1].score).overall = 80
  /\ Val(sessions[1].score).grade.letter = "A"

C33_FollowUpIffDeserved ==
  [][ AnswerEvaluated(last') =>
        LET before == sessions[last'.id]
            after == sessions'[last'.id]
            at == before.currentSlotIndex + 1
            stored == AnsweredRecord(before, after).evaluation
            deserved ==
              /\ before.currentFollowUpDepth < maxFollowUps
              /\ ~detectDontKnow(Val(last'.answer))
              /\ Val(Val(stored).answer_quality) > 2
            created ==
              /\ after.currentFollowUpDepth = before.currentFollowUpDepth + 1
              /\ after.state = "FOLLOW_UP"
              /\ after.currentSlotIndex = before.currentSlotIndex
              /\ Len(after.slots) = Len(before.slots)
              /\ FollowUpCount(after.slots[at]) = FollowUpCount(before.slots[at]) + 1
            advanced ==
              /\ after.currentFollowUpDepth = 0
              /\ after.currentSlotIndex = before.currentSlotIndex + 1
              /\ FollowUpCount(after.slots[at]) = FollowUpCount(before.slots[at])
        IN (IsSome(stored) /\ IsSome(Val(stored).answer_quality))
             => IF deserved THEN created ELSE advanced ]_vars

\* C34: in every reachable state of a started session that is not
\* completed, the slot at the cursor holds as many FollowUp records as
\* currentFollowUpDepth says (none on an MCQ or coding slot), and the k-th
\* follow-up of every slot carries depth k.
C34_DepthCountsFollowUps ==
  \A id \in DOMAIN sessions :
    LET session == sessions[id]
        slot == SlotAt(session, session.currentSlotIndex)
    IN session.state \notin { "CREATED", "COMPLETED" } =>
         /\ IsSome(slot) => FollowUpCount(Val(slot)) = session.currentFollowUpDepth
         /\ (IsSome(slot) /\ Val(slot).type # "spoken") => session.currentFollowUpDepth = 0
         /\ \A i \in 1..Len(session.slots) :
              IsSome(session.slots[i].followUps) =>
                \A k \in 1..Len(Val(session.slots[i].followUps)) :
                  Val(session.slots[i].followUps)[k].depth = k

\* C35: the cursor leaves a slot only through the operation of the slot's
\* type or through skip: a spoken slot through submitAnswer, an MCQ slot
\* through submitMCQJustification after a submitMCQAnswer, a coding slot
\* through submitCode; an operation of another type neither advances the
\* cursor nor writes onto the slot.
C35_OnlyTheMatchingOperationAdvances ==
  [][ \A id \in DOMAIN sessions :
        (/\ last'.id = id
         /\ last'.op \in MutatingOps
         /\ id \in DOMAIN sessions'
         /\ IsSome(SlotAt(sessions[id], sessions[id].currentSlotIndex)))
          => LET before == sessions[id]
                 after == sessions'[id]
                 at == before.currentSlotIndex + 1
                 type == before.slots[at].type
                 leaving ==
                   CASE type = "spoken" -> "submitAnswer"
                     [] type = "mcq" -> "submitMCQJustification"
                     [] type = "coding" -> "submitCode"
                 own ==
                   CASE type = "spoken" -> { "submitAnswer" }
                     [] type = "mcq" -> { "submitMCQAnswer", "submitMCQJustification" }
                     [] type = "coding" ->
                          { "submitCode", "triggerCodingInterruption",
                            "submitInterruptionResponse" }
             IN /\ after.currentSlotIndex # before.currentSlotIndex
                     => last'.op \in { leaving, "skip" }
                /\ (/\ after.currentSlotIndex # before.currentSlotIndex
                    /\ last'.op = "submitMCQJustification")
                     => before.state = "MCQ_JUSTIFY"
                /\ last'.op \notin (own \cup { "skip" })
                     => /\ after.currentSlotIndex = before.currentSlotIndex
                        /\ after.slots[at] = before.slots[at] ]_vars

\* C36: in every reachable state of a started session that is not
\* completed, the state matches the type of the slot at the cursor: WARMUP,
\* CORE_QUESTION or FOLLOW_UP exactly on a spoken slot, MCQ or MCQ_JUSTIFY
\* exactly on an mcq slot, CODING or CODING_INTERRUPT exactly on a coding
\* slot.
C36_StateMatchesSlotType ==
  \A id \in DOMAIN sessions :
    LET session == sessions[id]
        slot == SlotAt(session, session.currentSlotIndex)
    IN (session.state \notin { "CREATED", "COMPLETED" } /\ IsSome(slot)) =>
         /\ session.state \in { "WARMUP", "CORE_QUESTION", "FOLLOW_UP" }
              <=> Val(slot).type = "spoken"
         /\ session.state \in { "MCQ", "MCQ_JUSTIFY" } <=> Val(slot).type = "mcq"
         /\ session.state \in { "CODING", "CODING_INTERRUPT" }
              <=> Val(slot).type = "coding"

SuspendedCalls(calls, op, id) ==
  { i \in 1..Len(calls) : calls[i].op = op /\ calls[i].id = id }

\* C38: when a start call is admitted for a session on which another start
\* call is suspended at the oracle, it fails with the invalid-state error
\* and leaves the session untouched; the suspended call, when the oracle
\* answers, succeeds and appends exactly one slot; so exactly one of the
\* two succeeds.
C38_OneStartWins ==
  [][ /\ \A id \in DOMAIN sessions :
           /\ (/\ SuspendedCalls(inflight, "start", id) # { }
               /\ inflight' = inflight
               /\ last'.op = "start" /\ last'.id = id
               /\ <<last, deviations>>' # <<last, deviations>>)
                => /\ last'.err = "Interview already started"
                   /\ sessions' = sessions
           /\ (/\ Len(inflight') < Len(inflight)
               /\ last'.op = "start" /\ last'.id = id /\ last'.err = "none")
                => /\ Len(sessions'[id].slots) = Len(sessions[id].slots) + 1
                   /\ sessions'[id].slots[Len(sessions'[id].slots)].type = "spoken"
                   /\ SuspendedCalls(inflight', "start", id) = { }
      /\ \A id \in DOMAIN sessions' :
           Cardinality(SuspendedCalls(inflight', "start", id)) <= 1 ]_vars

\* C38 witness: a second start call has been refused while the first is
\* still waiting for the oracle.
C38_Witness ==
  /\ last.op = "start"
  /\ last.err = "Interview already started"
  /\ SuspendedCalls(inflight, "start", last.id) # { }
  /\ sessions[last.id].slots = << >>

\* The calls made on the client's session so far, returned or suspended, are
\* the ones its state asked for, none met a failing oracle, and every call
\* still suspended is a submitAnswer.
OnlyAnswersInterleave ==
  /\ last.compliant
  /\ \A i \in 1..Len(inflight) : inflight[i].op = "submitAnswer"

\* C39: when submitAnswer calls on one session interleave at their oracle
\* awaits, no spoken slot ever holds more than maxFollowUps FollowUp
\* records, and once every call has returned the slot under the cursor is
\* the last one and holds as many follow-ups as currentFollowUpDepth says,
\* unless the session is completed.
C39_InterleavedAnswersKeepFollowUps ==
  (ClientSession \in DOMAIN sessions /\ OnlyAnswersInterleave) =>
    LET session == sessions[ClientSession]
    IN /\ \A k \in 1..Len(session.slots) :
            FollowUpCount(session.slots[k]) <= maxFollowUps
       /\ (inflight = << >> /\ session.state \notin { "CREATED", "COMPLETED" }) =>
            /\ Len(session.slots) = session.currentSlotIndex + 1
            /\ FollowUpCount(session.slots[Len(session.slots)])
                 = session.currentFollowUpDepth

\* C40: when a triggerCodingInterruption call suspended on the oracle
\* resumes on a session that other operations have driven to COMPLETED, the
\* session is left as it is: its state stays COMPLETED and its endTime
\* stays set.
C40_LateInterruptionLeavesCompleted ==
  [][ \A id \in DOMAIN sessions :
        LET before == SuspendedCalls(inflight, "triggerCodingInterruption", id)
            after == SuspendedCalls(inflight', "triggerCodingInterruption", id)
        IN (/\ sessions[id].state = "COMPLETED"
            /\ Cardinality(after) < Cardinality(before))
             => /\ id \in DOMAIN sessions'
                /\ sessions'[id] = sessions[id]
                /\ sessions'[id].state = "COMPLETED"
                /\ IsSome(sessions'[id].endTime) ]_vars

====
